---------------------------- MODULE Spec2Model ----------------------------
(***************************************************************************)
(* L-Store table engine: queries (src/lstore/query.py), the primary-key    *)
(* and secondary index with its B+ tree (src/lstore/index.py) and the      *)
(* two-phase-locking transaction (src/lstore/transaction.py).              *)
(*                                                                         *)
(* Python values are represented as follows.                               *)
(*   None                -> the integer None (-1); user values are >= 0    *)
(*   RID "b<N>" / "t<N>" -> <<"b", N>> / <<"t", N>>                        *)
(*   page path           -> <<pagerange index, "base" | "tail", page index>>*)
(*   Python lists        -> sequences; Python offsets are 0-based and are  *)
(*                          kept 0-based in page_directory                 *)
(*   Record              -> [base_rid, indirection, rid, schema_encoding,  *)
(*                           columns] (start_time is wall-clock, dropped)  *)
(***************************************************************************)
EXTENDS Integers, Sequences, FiniteSets, TLC

\* Python evaluates the arguments of a call once, before the call. Where a
\* function passes its arguments on through several calls (flush_batches,
\* add_record, count_update, update_write_tail, sum_loop, run_query), the
\* operator binds its parameters as values first:
\*     f(a_0) == CHOOSE result_ \in {body(a) : a \in {a_0}} : TRUE
\* It is the same function as f(a) == body(a); the binding is what keeps the
\* evaluation of ENABLED, which the fairness of TxFairSpec needs, linear in
\* the number of calls.

\* ---------------------------------------------------------------- bounds
\* Bound on the tail RID counter (query.py: current_tail_rid grows without limit).
MaxTailRid == 5

\* ------------------------------------------------------ program constants
\* lstore.config constants imported at query.py:6, scaled down.
PAGE_RANGE_SIZE == 2
MERGE_THRESH == 3
\* Page.CAPACITY (lstore.page), scaled down.
PAGE_CAPACITY == 2
\* BPlusTree(order=75), index.py:252, scaled down.
TreeOrder == 4
\* batch_size = 5000, index.py:126, scaled down.
batch_size == 2
\* insert_cache_size = 50000, index.py:12, scaled down.
insert_cache_size == 2
\* Table.num_columns: primary key plus two user columns.
num_columns == 3

None == -1

Keys == {1, 2, 3}

\* --------------------------------------------------------------- helpers
Range(s) == {s[i] : i \in DOMAIN s}

Last(s) == s[Len(s)]

\* Python s[lo:hi] on a sequence (0-based, hi exclusive).
Slice(s, lo, hi) == SubSeq(s, lo + 1, IF hi > Len(s) THEN Len(s) ELSE hi)

\* Python list.insert(i, x) (0-based position i).
ListInsert(s, i, x) == SubSeq(s, 1, i) \o <<x>> \o SubSeq(s, i + 1, Len(s))

\* RID strings.
\* An insert that gives every base record the RID "b0".
BaseRidZero(n) == <<"b", 0>>

BaseRid(n) == <<"b", n>>
TailRid(n) == <<"t", n>>
NoRid == <<"", 0>>

\* ------------------------------------------------------------ bisect
\* bisect.bisect_left / bisect.bisect_right on a sorted list of integers;
\* the result is the 0-based insertion point.
RECURSIVE bisect_left_loop(_, _, _, _)
bisect_left_loop(a, x, lo, hi) ==
    IF lo < hi
    THEN LET mid == (lo + hi) \div 2
         IN  IF a[mid + 1] < x
             THEN bisect_left_loop(a, x, mid + 1, hi)
             ELSE bisect_left_loop(a, x, lo, mid)
    ELSE lo

bisect_left(a, x) == bisect_left_loop(a, x, 0, Len(a))

\* A bisect_right that returns the position before the entries equal to x.
bisect_right_leftmost(a, x) == bisect_left_loop(a, x, 0, Len(a))

RECURSIVE bisect_right_loop(_, _, _, _)
bisect_right_loop(a, x, lo, hi) ==
    IF lo < hi
    THEN LET mid == (lo + hi) \div 2
         IN  IF x < a[mid + 1]
             THEN bisect_right_loop(a, x, lo, mid)
             ELSE bisect_right_loop(a, x, mid + 1, hi)
    ELSE lo

bisect_right(a, x) == bisect_right_loop(a, x, 0, Len(a))

\* ----------------------------------------------------------- B+ tree
\* A tree is [order, max_keys, root, nodes, size]; nodes is the heap of
\* BPlusTreeNode objects, a node is named by its position in it, and next = 0
\* is Python's None.  A leaf's children are the stored values.
BPlusTreeNode(is_leaf) ==
    [is_leaf |-> is_leaf, keys |-> <<>>, children |-> <<>>, next |-> 0]

BPlusTree(order) ==
    [order |-> order, max_keys |-> order - 1, root |-> 1,
     nodes |-> <<BPlusTreeNode(TRUE)>>, size |-> 0]

RECURSIVE search_from(_, _, _)
search_from(nodes, id, key) ==
    IF nodes[id].is_leaf
    THEN id
    ELSE search_from(nodes,
                     nodes[id].children[bisect_right(nodes[id].keys, key) + 1],
                     key)

\* BPlusTree.search: the leaf that would hold key.
search(tree, key) == search_from(tree.nodes, tree.root, key)

\* BPlusTree.__getitem__ for a single key: found = FALSE is KeyError.
tree_getitem(tree, key) ==
    LET leaf == tree.nodes[search(tree, key)]
        i == bisect_left(leaf.keys, key)
    IN  IF i < Len(leaf.keys) /\ leaf.keys[i + 1] = key
        THEN [found |-> TRUE, value |-> leaf.children[i + 1]]
        ELSE [found |-> FALSE, value |-> NoRid]

has_key(tree, key) ==
    LET leaf == tree.nodes[search(tree, key)]
        i == bisect_left(leaf.keys, key)
    IN  i < Len(leaf.keys) /\ leaf.keys[i + 1] = key

\* BPlusTree.split_child(parent, index), index 0-based; returns the heap.
split_child(nodes, parent, index) ==
    LET id == nodes[parent].children[index + 1]
        node == nodes[id]
        new_id == Len(nodes) + 1
        mid == Len(node.keys) \div 2
        n == Len(node.keys)
        new_node ==
            IF node.is_leaf
            THEN [is_leaf |-> TRUE,
                  keys |-> Slice(node.keys, mid, n),
                  children |-> Slice(node.children, mid, n),
                  next |-> node.next]
            ELSE [is_leaf |-> FALSE,
                  keys |-> Slice(node.keys, mid + 1, n),
                  children |-> Slice(node.children, mid + 1, n + 1),
                  next |-> 0]
        old_node ==
            IF node.is_leaf
            THEN [node EXCEPT !.keys = Slice(node.keys, 0, mid),
                              !.children = Slice(node.children, 0, mid),
                              !.next = new_id]
            ELSE [node EXCEPT !.keys = Slice(node.keys, 0, mid),
                              !.children = Slice(node.children, 0, mid + 1)]
        split_key == IF node.is_leaf THEN new_node.keys[1] ELSE node.keys[mid + 1]
        new_parent ==
            [nodes[parent] EXCEPT
                !.keys = ListInsert(@, index, split_key),
                !.children = ListInsert(@, index + 1, new_id)]
    IN  [Append(nodes, new_node) EXCEPT ![id] = old_node, ![parent] = new_parent]

RECURSIVE insert_non_full(_, _, _, _, _)
insert_non_full(nodes, max_keys, id, key, value) ==
    LET node == nodes[id]
    IN  IF node.is_leaf
        THEN LET i == bisect_left(node.keys, key)
             IN  [nodes EXCEPT ![id] =
                    [node EXCEPT !.keys = ListInsert(@, i, key),
                                 !.children = ListInsert(@, i, value)]]
        ELSE LET i == bisect_right(node.keys, key)
                 child == nodes[node.children[i + 1]]
             IN  IF Len(child.keys) = max_keys
                 THEN LET descend(split) ==
                            insert_non_full(
                                split, max_keys,
                                split[id].children[
                                    IF key >= split[id].keys[i + 1]
                                    THEN i + 2 ELSE i + 1],
                                key, value)
                      IN  descend(split_child(nodes, id, i))
                 ELSE insert_non_full(nodes, max_keys, node.children[i + 1],
                                      key, value)

\* BPlusTree.__setitem__
tree_setitem(tree, key, value) ==
    LET new_root == Len(tree.nodes) + 1
        with_root ==
            Append(tree.nodes,
                   [BPlusTreeNode(FALSE) EXCEPT !.children = <<tree.root>>])
        put(grown) ==
            [grown EXCEPT
                !.nodes = insert_non_full(grown.nodes, grown.max_keys,
                                          grown.root, key, value),
                !.size = @ + 1]
    IN  put(IF Len(tree.nodes[tree.root].keys) = tree.max_keys
            THEN [tree EXCEPT !.nodes = split_child(with_root, new_root, 0),
                              !.root = new_root]
            ELSE tree)

RECURSIVE max_key_from(_, _)
max_key_from(nodes, id) ==
    IF nodes[id].is_leaf
    THEN IF Len(nodes[id].keys) > 0 THEN Last(nodes[id].keys) ELSE None
    ELSE max_key_from(nodes, Last(nodes[id].children))

max_key(tree) == max_key_from(tree.nodes, tree.root)

RECURSIVE setitem_all(_, _)
setitem_all(tree, pairs) ==
    IF pairs = <<>>
    THEN tree
    ELSE setitem_all(tree_setitem(tree, pairs[1][1], pairs[1][2]), Tail(pairs))

\* batch_insert without the test against max_key().
batch_insert_unchecked(tree, pairs) ==
    [tree |-> setitem_all(tree, pairs), raised |-> FALSE]

\* BPlusTree.batch_insert: raised = TRUE is the ValueError, raised before
\* any key of the batch is inserted.
batch_insert(tree, pairs) ==
    IF tree.size > 0 /\ pairs[1][1] <= max_key(tree)
    THEN [tree |-> tree, raised |-> TRUE]
    ELSE [tree |-> setitem_all(tree, pairs), raised |-> FALSE]

\* BPlusTree.items: every (key, value) pair, walking the leaf chain.
RECURSIVE leftmost_leaf(_, _)
leftmost_leaf(nodes, id) ==
    IF nodes[id].is_leaf THEN id ELSE leftmost_leaf(nodes, nodes[id].children[1])

RECURSIVE leaf_items(_, _)
leaf_items(nodes, id) ==
    IF id = 0
    THEN <<>>
    ELSE [i \in 1..Len(nodes[id].keys) |->
            <<nodes[id].keys[i], nodes[id].children[i]>>]
         \o leaf_items(nodes, nodes[id].next)

items(tree) == leaf_items(tree.nodes, leftmost_leaf(tree.nodes, tree.root))

\* ------------------------------------------------- encoded RIDs, tuples
\* rid.encode('utf-8') values are compared as byte strings: b"" sorts before
\* and b"\xff" after every encoded RID; "b<N>" sorts before "t<M>" and the
\* decimal digits compare lexicographically.
MinBytes == <<"", 0>>
MaxBytes == <<"xff", 0>>

LaneRank(lane) ==
    CASE lane = "" -> 0 [] lane = "b" -> 1 [] lane = "t" -> 2 [] OTHER -> 3

RECURSIVE Digits(_)
Digits(n) == IF n < 10 THEN <<n>> ELSE Append(Digits(n \div 10), n % 10)

RECURSIVE SeqLess(_, _)
SeqLess(a, b) ==
    IF b = <<>> THEN FALSE
    ELSE IF a = <<>> THEN TRUE
    ELSE IF a[1] # b[1] THEN a[1] < b[1]
    ELSE SeqLess(Tail(a), Tail(b))

BytesLess(x, y) ==
    IF x[1] # y[1]
    THEN LaneRank(x[1]) < LaneRank(y[1])
    ELSE x[1] \in {"b", "t"} /\ SeqLess(Digits(x[2]), Digits(y[2]))

\* Python's ordering of (key, encoded rid) tuples.
TupleLess(x, y) == x[1] < y[1] \/ (x[1] = y[1] /\ BytesLess(x[2], y[2]))

RECURSIVE bisect_left_tuples(_, _, _, _)
bisect_left_tuples(a, x, lo, hi) ==
    IF lo < hi
    THEN LET mid == (lo + hi) \div 2
         IN  IF TupleLess(a[mid + 1], x)
             THEN bisect_left_tuples(a, x, mid + 1, hi)
             ELSE bisect_left_tuples(a, x, lo, mid)
    ELSE lo

RECURSIVE bisect_right_tuples(_, _, _, _)
bisect_right_tuples(a, x, lo, hi) ==
    IF lo < hi
    THEN LET mid == (lo + hi) \div 2
         IN  IF TupleLess(x, a[mid + 1])
             THEN bisect_right_tuples(a, x, lo, mid)
             ELSE bisect_right_tuples(a, x, mid + 1, hi)
    ELSE lo

\* bisect.insort(a, x)
insort(a, x) == ListInsert(a, bisect_right_tuples(a, x, 0, Len(a)), x)

\* ---------------------------------------------------------------- Index
\* Column c of the Python code is position c + 1 of the per-column sequences.
Columns == 0..(num_columns - 1)

\* Index.__init__
IndexInit ==
    [indices |-> [c \in 1..num_columns |-> BPlusTree(TreeOrder)],
     insert_cache |-> [c \in 1..num_columns |-> <<>>],
     max_keys |-> [c \in 1..num_columns |-> None],
     unsorted_cache |-> [c \in 1..num_columns |-> <<>>],
     primary_key_cache |-> <<>>,
     sorted_records |-> <<>>]

\* sorted(cache, key=lambda x: x[0]): stable, by key only.
RECURSIVE sorted_by_key(_)
sorted_by_key(s) ==
    IF s = <<>>
    THEN <<>>
    ELSE LET rest == sorted_by_key(Tail(s))
             \* s[1] goes before every element of rest with a key >= its own
             pos == Cardinality({i \in 1..Len(rest) : rest[i][1] < s[1][1]})
         IN  ListInsert(rest, pos, s[1])

\* Index._merge_sorted_lists
RECURSIVE merge_sorted_lists(_, _)
merge_sorted_lists(list1, list2) ==
    IF list1 = <<>> THEN list2
    ELSE IF list2 = <<>> THEN list1
    ELSE IF list1[1][1] <= list2[1][1]
         THEN <<list1[1]>> \o merge_sorted_lists(Tail(list1), list2)
         ELSE <<list2[1]>> \o merge_sorted_lists(list1, Tail(list2))

\* A batch loop without the per-key insert: a batch that batch_insert
\* refuses is dropped.
RECURSIVE flush_batches_no_fallback(_, _, _)
flush_batches_no_fallback(tree, cache, i) ==
    IF i >= Len(cache)
    THEN tree
    ELSE flush_batches_no_fallback(
            batch_insert(tree, Slice(cache, i, i + batch_size)).tree,
            cache, i + batch_size)

\* One pass of the batch loop of _flush_cache_for_column, from offset i:
\* batch_insert, and on ValueError the per-key insert of that batch.
RECURSIVE flush_batches(_, _, _)
flush_batches(tree_0, cache_0, i_0) ==
    CHOOSE result_ \in {
        IF i >= Len(cache)
        THEN tree
        ELSE LET after(batch, tried) ==
                    IF tried.raised THEN setitem_all(tree, batch) ELSE tried.tree
             IN  flush_batches(
                    after(Slice(cache, i, i + batch_size),
                          batch_insert(tree, Slice(cache, i, i + batch_size))),
                    cache, i + batch_size)
      : tree \in {tree_0}, cache \in {cache_0}, i \in {i_0}} : TRUE

\* Index._flush_cache_for_column
flush_cache_for_column(ix, col) ==
    LET c == col + 1
        flush(cache) ==
            IF cache = <<>>
            THEN [ix EXCEPT !.unsorted_cache[c] = <<>>]
            ELSE [ix EXCEPT
                    !.unsorted_cache[c] = <<>>,
                    !.indices[c] = flush_batches(@, cache, 0),
                    !.max_keys[c] =
                        IF @ = None \/ Last(cache)[1] > @
                        THEN Last(cache)[1] ELSE @,
                    !.insert_cache[c] = <<>>]
    IN  flush(IF ix.unsorted_cache[c] # <<>>
              THEN IF ix.insert_cache[c] # <<>>
                   THEN merge_sorted_lists(ix.insert_cache[c],
                                           sorted_by_key(ix.unsorted_cache[c]))
                   ELSE sorted_by_key(ix.unsorted_cache[c])
              ELSE ix.insert_cache[c])

\* Index.flush_cache
RECURSIVE flush_columns(_, _)
flush_columns(ix, col) ==
    IF col >= num_columns
    THEN ix
    ELSE flush_columns(flush_cache_for_column(ix, col), col + 1)

flush_cache(ix) == flush_columns(ix, 0)

\* The per-column loop of Index.add_record, from column col.
RECURSIVE add_record_columns(_, _, _)
add_record_columns(ix, record, col) ==
    IF col >= Len(record.columns)
    THEN ix
    ELSE IF record.columns[col + 1] = None
         THEN add_record_columns(ix, record, col + 1)
         ELSE LET flushed(appended) ==
                    IF Len(appended.insert_cache[col + 1]) >= insert_cache_size
                    THEN flush_cache_for_column(appended, col)
                    ELSE appended
              IN  add_record_columns(
                    flushed([ix EXCEPT !.unsorted_cache[col + 1] =
                               Append(@, <<record.columns[col + 1], record.rid>>)]),
                    record, col + 1)

\* An add_record that, given a tombstone (primary key None), takes the key
\* of the tombstone's base record out of primary_key_cache and
\* sorted_records.
add_record_forgetting(ix, record) ==
    LET primary_key == record.columns[1]
        gone == {k \in DOMAIN ix.primary_key_cache :
                    ix.primary_key_cache[k] = record.base_rid}
        cached ==
            IF primary_key # None
            THEN [ix EXCEPT
                    !.primary_key_cache = (primary_key :> record.rid) @@ @,
                    !.sorted_records = insort(@, <<primary_key, record.rid>>)]
            ELSE [ix EXCEPT
                    !.primary_key_cache =
                        [k \in DOMAIN @ \ gone |-> @[k]],
                    !.sorted_records =
                        SelectSeq(@, LAMBDA e : e[1] \notin gone)]
    IN  add_record_columns(cached, record, 0)

\* Index.add_record
add_record(ix_0, record_0) ==
    CHOOSE result_ \in {
        LET primary_key == record.columns[1]
            cached ==
                IF primary_key # None
                THEN [ix EXCEPT
                        !.primary_key_cache = (primary_key :> record.rid) @@ @,
                        !.sorted_records = insort(@, <<primary_key, record.rid>>)]
                ELSE ix
        IN  add_record_columns(cached, record, 0)
      : ix \in {ix_0}, record \in {record_0}} : TRUE

\* Index.locate: [index, found, rid]; found = FALSE is the return value False.
locate(ix, column, value) ==
    IF column = 0 /\ value \in DOMAIN ix.primary_key_cache
    THEN [index |-> ix, found |-> TRUE, rid |-> ix.primary_key_cache[value]]
    ELSE LET looked_up(flushed, got) ==
                IF value = None \/ ~got.found
                THEN [index |-> flushed, found |-> FALSE, rid |-> NoRid]
                ELSE [index |-> flushed, found |-> TRUE, rid |-> got.value]
             getitem(flushed) ==
                looked_up(flushed, tree_getitem(flushed.indices[column + 1], value))
         IN  getitem(flush_cache_for_column(ix, column))

\* The dict built by locate_range: one entry per key, in first-seen order,
\* holding the value seen last.
RECURSIVE as_dict(_)
as_dict(pairs) ==
    IF pairs = <<>>
    THEN <<>>
    ELSE LET init == as_dict(SubSeq(pairs, 1, Len(pairs) - 1))
             kv == Last(pairs)
         IN  IF \E i \in 1..Len(init) : init[i][1] = kv[1]
             THEN [i \in 1..Len(init) |->
                    IF init[i][1] = kv[1] THEN kv ELSE init[i]]
             ELSE Append(init, kv)

\* locate_range with end_range left out of the range.
locate_range_exclusive(ix, begin, end, column) ==
    LET left == bisect_left_tuples(ix.sorted_records, <<begin, MinBytes>>,
                                   0, Len(ix.sorted_records))
        right == bisect_left_tuples(ix.sorted_records, <<end, MinBytes>>,
                                    0, Len(ix.sorted_records))
        result == as_dict(Slice(ix.sorted_records, left, right))
    IN  [found |-> result # <<>>, pairs |-> result]

\* Index.locate_range for the primary-key column: [found, pairs]; found =
\* FALSE is the return value False.
locate_range(ix, begin, end, column) ==
    LET left == bisect_left_tuples(ix.sorted_records, <<begin, MinBytes>>,
                                   0, Len(ix.sorted_records))
        right == bisect_right_tuples(ix.sorted_records, <<end, MaxBytes>>,
                                     0, Len(ix.sorted_records))
        result == as_dict(Slice(ix.sorted_records, left, right))
    IN  [found |-> result # <<>>, pairs |-> result]

\* exists answering False for every value.
exists_never(ix, column, value) == [index |-> ix, exists |-> FALSE]

\* Index.exists: [index, exists].
exists(ix, column, value) ==
    LET c == column + 1
    IN  IF column = 0 /\ value \in DOMAIN ix.primary_key_cache
        THEN [index |-> ix, exists |-> TRUE]
        ELSE IF \E i \in 1..Len(ix.unsorted_cache[c]) :
                    ix.unsorted_cache[c][i][1] = value
        THEN [index |-> ix, exists |-> TRUE]
        ELSE IF \E i \in 1..Len(ix.insert_cache[c]) :
                    ix.insert_cache[c][i][1] = value
        THEN [index |-> ix, exists |-> TRUE]
        ELSE IF ix.unsorted_cache[c] = <<>> /\ ix.insert_cache[c] = <<>>
        THEN [index |-> ix, exists |-> has_key(ix.indices[c], value)]
        ELSE LET checked(flushed) ==
                    [index |-> flushed,
                     exists |-> has_key(flushed.indices[c], value)]
             IN  checked(flush_cache_for_column(ix, column))

\* ------------------------------------------------ Page, BufferPool, Table
\* Page (lstore.page): a page is the sequence of the records written to it.
has_capacity(page) == Len(page) < PAGE_CAPACITY

write(page, record) == Append(page, record)

\* BufferPool.add_frame(path, page): the frame stored under path is page.
add_frame(frames, path, page) == (path :> page) @@ frames

\* Paths <table>/pagerange_<P>/<base|tail>/page_<N>.
BasePath(pr, n) == <<pr, "base", n>>
TailPath(pr, n) == <<pr, "tail", n>>

\* What _parse_page_path returns from its except branch, whatever the path.
parse_page_path_failed(path) == <<0, 0>>

\* Query._parse_page_path
parse_page_path(path) == <<path[1], path[3]>>

NoRecord ==
    [base_rid |-> NoRid, indirection |-> NoRid, rid |-> NoRid,
     schema_encoding |-> <<>>, columns |-> <<>>]

\* page_directory[rid] followed by get_page(path).read_index(offset);
\* ok = FALSE when one of the lookups raises (KeyError, IndexError).
read_record(tb, rid) ==
    IF rid \notin DOMAIN tb.page_directory
    THEN [ok |-> FALSE, record |-> NoRecord]
    ELSE LET path == tb.page_directory[rid][1]
             offset == tb.page_directory[rid][2]
         IN  IF path \in DOMAIN tb.frames /\ offset < Len(tb.frames[path])
             THEN [ok |-> TRUE, record |-> tb.frames[path][offset + 1]]
             ELSE [ok |-> FALSE, record |-> NoRecord]

\* table.name of the table most queries are about.
TableName == "Grades"

\* The table after Table.__init__: one pagerange with an empty base page 0
\* and an empty tail page 0, as Query.insert creates every later pagerange.
TableInit ==
    [name |-> TableName,
     page_directory |-> <<>>,
     frames |-> (BasePath(0, 0) :> <<>>) @@ (TailPath(0, 0) :> <<>>),
     current_base_rid |-> 0,
     current_tail_rid |-> 0,
     base_page_locations |-> <<BasePath(0, 0)>>,
     tail_page_locations |-> <<TailPath(0, 0)>>,
     tail_page_indices |-> <<0>>,
     pr_unmerged_updates |-> <<0>>,
     page_range_tps |-> <<0>>,
     last_path |-> BasePath(0, 0),
     index |-> IndexInit]

\* Table.merge(pr), by its contract: every base record of the pagerange
\* takes the columns of its newest tail, RIDs and page_directory are kept,
\* and the count of unmerged updates starts over.
merge(tb, pr) ==
    LET consolidated(r) ==
            LET t == read_record(tb, r.indirection)
            IN  IF r.indirection # r.rid /\ t.ok
                THEN [r EXCEPT !.columns = t.record.columns]
                ELSE r
    IN  [tb EXCEPT
            !.frames = [path \in DOMAIN tb.frames |->
                          IF path[1] = pr /\ path[2] = "base"
                          THEN [i \in 1..Len(tb.frames[path]) |->
                                  consolidated(tb.frames[path][i])]
                          ELSE tb.frames[path]],
            !.pr_unmerged_updates[pr + 1] = 0]

\* The merge trigger at the end of update and delete.
count_update(tb_0, pr_0) ==
    CHOOSE result_ \in {
        LET triggered(counted) ==
                IF counted.pr_unmerged_updates[pr + 1] >= MERGE_THRESH
                THEN merge(counted, pr)
                ELSE counted
        IN  triggered([tb EXCEPT !.pr_unmerged_updates[pr + 1] = @ + 1])
      : tb \in {tb_0}, pr \in {pr_0}} : TRUE

\* ----------------------------------------------------------------- Query
\* A query returns [table, ok, raised]: ok is the Python result being
\* neither False nor None, raised is the query ending in an exception.
\* Reading queries add the returned records or value.
Zeros(n) == [i \in 1..n |-> 0]

Nones(n) == [i \in 1..n |-> None]

\* Query.insert
insert(tb, columns) ==
    LET primary_key == columns[1]
        rid == BaseRid(tb.current_base_rid)
        record == [base_rid |-> rid, indirection |-> rid, rid |-> rid,
                   schema_encoding |-> Zeros(Len(columns)), columns |-> columns]
        last_path == Last(tb.base_page_locations)
        last_page == tb.frames[last_path]
        last_pagerange_index == parse_page_path(last_path)[1]
        last_page_index == parse_page_path(last_path)[2]
        same_range == BasePath(last_pagerange_index, last_page_index + 1)
        new_range == BasePath(last_pagerange_index + 1, 0)
        new_tail == TailPath(last_pagerange_index + 1, 0)
        place(indexed) ==
            IF has_capacity(last_page)
            THEN [table |->
                    [indexed EXCEPT
                       !.frames[last_path] = write(@, record),
                       !.base_page_locations[last_pagerange_index + 1] = last_path],
                  insert_path |-> tb.last_path,
                  offset |-> Len(last_page)]
            ELSE IF last_page_index + 1 < PAGE_RANGE_SIZE
            THEN [table |->
                    [indexed EXCEPT
                       !.base_page_locations[last_pagerange_index + 1] = same_range,
                       !.last_path = same_range,
                       !.frames = add_frame(@, same_range, <<record>>)],
                  insert_path |-> same_range,
                  offset |-> 0]
            ELSE [table |->
                    [indexed EXCEPT
                       !.page_range_tps = Append(@, 0),
                       !.tail_page_locations = Append(@, new_tail),
                       !.base_page_locations = Append(@, new_range),
                       !.pr_unmerged_updates = Append(@, 0),
                       !.tail_page_indices = Append(@, 0),
                       !.last_path = new_range,
                       !.frames = add_frame(add_frame(@, new_tail, <<>>),
                                            new_range, <<record>>)],
                  insert_path |-> new_range,
                  offset |-> 0]
        directory(placed) ==
            [table |->
                [placed.table EXCEPT
                   !.page_directory =
                        (rid :> <<placed.insert_path, placed.offset>>) @@ @,
                   !.current_base_rid = @ + 1],
             ok |-> TRUE, raised |-> FALSE]
        checked(does_exist) ==
            IF does_exist.exists
            THEN [table |-> [tb EXCEPT !.index = does_exist.index],
                  ok |-> FALSE, raised |-> FALSE]
            ELSE directory(place(
                    [tb EXCEPT !.index = add_record(does_exist.index, record)]))
    IN  checked(exists(tb.index, 0, primary_key))

\* Query.update appends a tail record to the current tail page of pagerange
\* pr, or to a new tail page when that page is full: [table, insert_path,
\* offset].
update_write_tail(tb_0, pr_0, record_0) ==
    CHOOSE result_ \in {
        LET current_tail_path == tb.tail_page_locations[pr + 1]
            current_tail_page == tb.frames[current_tail_path]
            new_path == TailPath(pr, tb.tail_page_indices[pr + 1] + 1)
        IN  IF has_capacity(current_tail_page)
            THEN [table |-> [tb EXCEPT !.frames[current_tail_path] = write(@, record)],
                  insert_path |-> current_tail_path,
                  offset |-> Len(current_tail_page)]
            ELSE [table |->
                    [tb EXCEPT
                       !.tail_page_indices[pr + 1] = @ + 1,
                       !.frames = add_frame(@, new_path, <<record>>),
                       !.tail_page_locations[pr + 1] = new_path],
                  insert_path |-> new_path,
                  offset |-> 0]
      : tb \in {tb_0}, pr \in {pr_0}, record \in {record_0}} : TRUE

\* Query.update
update(tb, primary_key, columns) ==
    LET queried(located) ==
            LET tb0 == [tb EXCEPT !.index = located.index]
                base_rid == located.rid
                base_path == tb0.page_directory[base_rid][1]
                base_offset == tb0.page_directory[base_rid][2]
                base == read_record(tb0, base_rid)
                base_record == base.record
                is_first_update == base_record.indirection = base_record.rid
                base_pagerange_index == base_path[1]
                last_tail == read_record(tb0, base_record.indirection)
                original_copy ==
                    [base_rid |-> base_record.rid,
                     indirection |-> base_record.rid,
                     rid |-> TailRid(tb0.current_tail_rid),
                     schema_encoding |->
                        [i \in 1..Len(columns) |-> IF columns[i] # None THEN 1 ELSE 0],
                     columns |-> base_record.columns]
                copied ==
                    update_write_tail([tb0 EXCEPT !.current_tail_rid = @ + 1],
                                      base_pagerange_index, original_copy)
                tb1 ==
                    IF is_first_update
                    THEN [copied.table EXCEPT
                            !.page_directory =
                                (original_copy.rid :> <<copied.insert_path, copied.offset>>)
                                @@ @]
                    ELSE tb0
                last_tail_record == IF is_first_update THEN original_copy ELSE last_tail.record
                schema_len == Len(columns)
                new_schema ==
                    [i \in 1..schema_len |->
                        IF columns[i] # None THEN 1 ELSE last_tail_record.schema_encoding[i]]
                new_cols ==
                    [i \in 1..schema_len |->
                        IF columns[i] # None THEN columns[i] ELSE last_tail_record.columns[i]]
                record ==
                    [base_rid |-> base_record.rid,
                     indirection |-> last_tail_record.rid,
                     rid |-> TailRid(tb1.current_tail_rid),
                     schema_encoding |-> new_schema,
                     columns |-> new_cols]
                tb2 ==
                    [tb1 EXCEPT
                        !.frames[base_path][base_offset + 1] =
                            [@ EXCEPT !.schema_encoding = new_schema,
                                      !.indirection = record.rid]]
                written == update_write_tail(tb2, base_pagerange_index, record)
                tb3 ==
                    [written.table EXCEPT
                        !.page_directory =
                            (record.rid :> <<written.insert_path, written.offset>>) @@ @,
                        !.current_tail_rid = @ + 1]
            IN  IF ~located.found
                THEN [table |-> tb0, ok |-> FALSE, raised |-> FALSE]
                ELSE IF ~base.ok \/ (~is_first_update /\ ~last_tail.ok)
                THEN [table |-> tb0, ok |-> FALSE, raised |-> TRUE]
                ELSE [table |-> count_update(tb3, base_pagerange_index),
                      ok |-> TRUE, raised |-> FALSE]
    IN  queried(locate(tb.index, 0, primary_key))

\* Query.delete
delete(tb, primary_key) ==
    LET queried(located) ==
            LET tb0 == [tb EXCEPT !.index = located.index]
                base_rid == located.rid
                base_path == tb0.page_directory[base_rid][1]
                base == read_record(tb0, base_rid)
                base_record == base.record
                last_tail == read_record(tb0, base_record.indirection)
                last_tail_record == last_tail.record
                record ==
                    [base_rid |-> base_record.rid,
                     indirection |-> last_tail_record.rid,
                     rid |-> TailRid(tb0.current_tail_rid),
                     schema_encoding |-> Zeros(Len(base_record.schema_encoding)),
                     columns |-> Nones(Len(base_record.columns))]
                base_pagerange_index == base_path[1]
                tail_path == tb0.tail_page_locations[base_pagerange_index + 1]
                tail_page == tb0.frames[tail_path]
                new_path == TailPath(base_pagerange_index, Len(tb0.tail_page_locations) - 1)
                written ==
                    IF has_capacity(tail_page)
                    THEN [table |-> [tb0 EXCEPT !.frames[tail_path] = write(@, record)],
                          insert_path |-> tail_path,
                          offset |-> Len(tail_page)]
                    ELSE [table |->
                            [tb0 EXCEPT
                               !.frames = add_frame(@, new_path, <<record>>),
                               !.tail_page_locations[base_pagerange_index + 1] = new_path],
                          insert_path |-> new_path,
                          offset |-> 0]
                tb1 ==
                    [written.table EXCEPT
                        !.page_directory =
                            (record.rid :> <<written.insert_path, written.offset>>) @@ @,
                        !.index = add_record(@, record),
                        !.current_tail_rid = @ + 1]
            IN  IF ~located.found
                THEN [table |-> tb0, ok |-> FALSE, raised |-> FALSE]
                ELSE IF ~base.ok \/ ~last_tail.ok
                THEN [table |-> tb0, ok |-> FALSE, raised |-> TRUE]
                ELSE [table |-> count_update(tb1, base_pagerange_index),
                      ok |-> TRUE, raised |-> FALSE]
    IN  queried(locate(tb.index, 0, primary_key))

\* [element for element, bit in zip(columns, projected_columns_index) if bit == 1]
RECURSIVE project(_, _)
project(columns, projected_columns_index) ==
    IF columns = <<>> \/ projected_columns_index = <<>>
    THEN <<>>
    ELSE (IF projected_columns_index[1] = 1 THEN <<columns[1]>> ELSE <<>>)
         \o project(Tail(columns), Tail(projected_columns_index))

\* select returning the base record instead of the record its indirection
\* names.
select_base(tb, search_key, search_key_index, projected_columns_index) ==
    LET queried(located) ==
            LET tb0 == [tb EXCEPT !.index = located.index]
                base == read_record(tb0, located.rid)
            IN  IF ~located.found
                THEN [table |-> tb0, ok |-> FALSE, raised |-> FALSE, records |-> <<>>]
                ELSE IF ~base.ok
                THEN [table |-> tb0, ok |-> FALSE, raised |-> TRUE, records |-> <<>>]
                ELSE [table |-> tb0, ok |-> TRUE, raised |-> FALSE,
                      records |->
                        <<[base.record EXCEPT
                             !.columns = project(@, projected_columns_index)]>>]
    IN  queried(locate(tb.index, search_key_index, search_key))

\* Query.select
select(tb, search_key, search_key_index, projected_columns_index) ==
    LET queried(located) ==
            LET tb0 == [tb EXCEPT !.index = located.index]
                base == read_record(tb0, located.rid)
                tail == read_record(tb0, base.record.indirection)
                tail_record == tail.record
                new_record ==
                    [base_rid |-> tail_record.base_rid,
                     indirection |-> tail_record.indirection,
                     rid |-> tail_record.rid,
                     schema_encoding |-> tail_record.schema_encoding,
                     columns |-> project(tail_record.columns, projected_columns_index)]
            IN  IF ~located.found
                THEN [table |-> tb0, ok |-> FALSE, raised |-> FALSE, records |-> <<>>]
                ELSE IF ~base.ok \/ ~tail.ok
                THEN [table |-> tb0, ok |-> FALSE, raised |-> TRUE, records |-> <<>>]
                ELSE [table |-> tb0, ok |-> TRUE, raised |-> FALSE,
                      records |-> <<new_record>>]
    IN  queried(locate(tb.index, search_key_index, search_key))

\* abs(relative_version - 2)
abs(n) == IF n < 0 THEN 0 - n ELSE n

\* The walk of select_version without its early stop.
RECURSIVE select_version_walk_on(_, _, _, _)
select_version_walk_on(tb, temp_rid, temp_record, i) ==
    IF i = 0
    THEN [ok |-> TRUE, record |-> temp_record]
    ELSE LET read == read_record(tb, temp_rid)
         IN  IF ~read.ok
             THEN [ok |-> FALSE, record |-> NoRecord]
             ELSE select_version_walk_on(tb, read.record.indirection,
                                         read.record, i - 1)

\* The walk of Query.select_version: i hops left, temp_rid the next RID
\* to read, temp_record the record read last.  It stops early when the
\* record just read points back at its base.
RECURSIVE select_version_walk(_, _, _, _)
select_version_walk(tb, temp_rid, temp_record, i) ==
    IF i = 0
    THEN [ok |-> TRUE, record |-> temp_record]
    ELSE LET read == read_record(tb, temp_rid)
         IN  IF ~read.ok
             THEN [ok |-> FALSE, record |-> NoRecord]
             ELSE IF read.record.indirection = read.record.base_rid
             THEN [ok |-> TRUE, record |-> read.record]
             ELSE select_version_walk(tb, read.record.indirection,
                                      read.record, i - 1)

\* Query.select_version; ok = FALSE without raised is the return value None.
select_version(tb, search_key, search_key_index, projected_columns_index, relative_version) ==
    LET queried(located) ==
            LET tb0 == [tb EXCEPT !.index = located.index]
                walk == select_version_walk(tb0, located.rid, NoRecord,
                                            abs(relative_version - 2))
                temp_record == walk.record
                modified_record ==
                    [base_rid |-> temp_record.base_rid,
                     indirection |-> temp_record.indirection,
                     rid |-> temp_record.rid,
                     schema_encoding |-> temp_record.schema_encoding,
                     columns |-> project(temp_record.columns, projected_columns_index)]
            IN  IF ~located.found
                THEN [table |-> tb0, ok |-> FALSE, raised |-> FALSE, records |-> <<>>]
                ELSE IF ~walk.ok
                THEN [table |-> tb0, ok |-> FALSE, raised |-> TRUE, records |-> <<>>]
                ELSE [table |-> tb0, ok |-> TRUE, raised |-> FALSE,
                      records |-> <<modified_record>>]
    IN  queried(locate(tb.index, search_key_index, search_key))

\* The loop of Query.sum over the located RIDs: [ok, value]; ok = FALSE when
\* a read raises or a summed column is None (TypeError).
RECURSIVE sum_loop(_, _, _, _)
sum_loop(tb_0, rids_0, aggregate_column_index_0, range_sum_0) ==
    CHOOSE result_ \in {
        IF rids = <<>>
        THEN [ok |-> TRUE, value |-> range_sum]
        ELSE LET base == read_record(tb, rids[1])
                 tail == read_record(tb, base.record.indirection)
             IN  IF ~base.ok \/ ~tail.ok
                 THEN [ok |-> FALSE, value |-> 0]
                 ELSE IF tail.record.columns[aggregate_column_index + 1] = None
                 THEN [ok |-> FALSE, value |-> 0]
                 ELSE sum_loop(tb, Tail(rids), aggregate_column_index,
                               range_sum + tail.record.columns[aggregate_column_index + 1])
      : tb \in {tb_0}, rids \in {rids_0}, aggregate_column_index \in {aggregate_column_index_0}, range_sum \in {range_sum_0}} : TRUE

dict_values(pairs) == [i \in 1..Len(pairs) |-> pairs[i][2]]

\* Query.sum; ok = FALSE without raised is the return value False.
sum(tb, start_range, end_range, aggregate_column_index) ==
    LET rid_dict == locate_range(tb.index, start_range, end_range, 0)
        total == sum_loop(tb, dict_values(rid_dict.pairs),
                          aggregate_column_index, 0)
    IN  IF ~rid_dict.found
        THEN [table |-> tb, ok |-> FALSE, raised |-> FALSE, value |-> 0]
        ELSE IF ~total.ok
        THEN [table |-> tb, ok |-> FALSE, raised |-> TRUE, value |-> 0]
        ELSE [table |-> tb, ok |-> TRUE, raised |-> FALSE, value |-> total.value]

\* The inner loop of Query.sum_version: i reads from temp_rid, no early stop.
RECURSIVE sum_version_walk(_, _, _, _)
sum_version_walk(tb, temp_rid, temp_record, i) ==
    IF i = 0
    THEN [ok |-> TRUE, record |-> temp_record]
    ELSE LET read == read_record(tb, temp_rid)
         IN  IF ~read.ok
             THEN [ok |-> FALSE, record |-> NoRecord]
             ELSE sum_version_walk(tb, read.record.indirection, read.record, i - 1)

RECURSIVE sum_version_loop(_, _, _, _, _)
sum_version_loop(tb, rids, aggregate_column_index, relative_version, range_sum) ==
    IF rids = <<>>
    THEN [ok |-> TRUE, value |-> range_sum]
    ELSE LET walk == sum_version_walk(tb, rids[1], NoRecord,
                                      abs(relative_version - 2))
         IN  IF ~walk.ok
             THEN [ok |-> FALSE, value |-> 0]
             ELSE IF walk.record.columns[aggregate_column_index + 1] = None
             THEN [ok |-> FALSE, value |-> 0]
             ELSE sum_version_loop(tb, Tail(rids), aggregate_column_index,
                                   relative_version,
                                   range_sum
                                   + walk.record.columns[aggregate_column_index + 1])

\* Query.sum_version
sum_version(tb, start_range, end_range, aggregate_column_index, relative_version) ==
    LET rids == locate_range(tb.index, start_range, end_range, 0)
        total == sum_version_loop(tb, dict_values(rids.pairs),
                                  aggregate_column_index, relative_version, 0)
    IN  IF ~rids.found
        THEN [table |-> tb, ok |-> FALSE, raised |-> FALSE, value |-> 0]
        ELSE IF ~total.ok
        THEN [table |-> tb, ok |-> FALSE, raised |-> TRUE, value |-> 0]
        ELSE [table |-> tb, ok |-> TRUE, raised |-> FALSE, value |-> total.value]

\* ---------------------------------------------------------- lock manager
\* TwoPhaseLock (lstore.two_phase_lock), by its contract: the lock table
\* maps a lock id to (mode, holders); acquire_lock never blocks, it grants
\* or refuses; release_lock drops the holder and removes an empty row.
SHARED == "SHARED"
EXCLUSIVE == "EXCLUSIVE"

\* [lock_table, granted]
acquire_lock(lt, transaction_id, item_id, lock_mode) ==
    IF item_id \notin DOMAIN lt
    THEN [lock_table |->
            (item_id :> [mode |-> lock_mode, holders |-> {transaction_id}]) @@ lt,
          granted |-> TRUE]
    ELSE IF transaction_id \in lt[item_id].holders
    THEN IF lt[item_id].mode = EXCLUSIVE \/ lock_mode = SHARED
         THEN [lock_table |-> lt, granted |-> TRUE]
         ELSE IF lt[item_id].holders = {transaction_id}
         THEN [lock_table |-> [lt EXCEPT ![item_id].mode = EXCLUSIVE],
               granted |-> TRUE]
         ELSE [lock_table |-> lt, granted |-> FALSE]
    ELSE IF lt[item_id].mode = SHARED /\ lock_mode = SHARED
    THEN [lock_table |-> [lt EXCEPT ![item_id].holders = @ \cup {transaction_id}],
          granted |-> TRUE]
    ELSE [lock_table |-> lt, granted |-> FALSE]

release_lock(lt, transaction_id, item_id) ==
    IF item_id \notin DOMAIN lt
    THEN lt
    ELSE IF lt[item_id].holders \ {transaction_id} = {}
    THEN [id \in DOMAIN lt \ {item_id} |-> lt[id]]
    ELSE [lt EXCEPT ![item_id].holders = @ \ {transaction_id}]

\* ------------------------------------------------------------ Transaction
Txns == {1, 2}

\* query.__name__ contains "insert" / "update".
IsInsert(op) == op = "insert"
IsUpdate(op) == op = "update"

\* The name of a second table of the database.
OtherName == "Other"

\* The queues add_query builds.  A queued query is [name, op, key, rest]:
\* name is the table it is queued for, key is args[0], the value run()
\* locates for every query that is not an insert, and rest the other
\* arguments (insert: the whole row; update: the column values; select on
\* column 0: the projection; sum: end_range and column).
QOn(name, op, key, rest) == [name |-> name, op |-> op, key |-> key, rest |-> rest]

Q(op, key, rest) == QOn(TableName, op, key, rest)

Programs ==
    {<<Q("insert", 3, <<3, 30, 30>>), Q("update", 3, <<None, 7, None>>)>>,
     <<Q("insert", 3, <<3, 30, 30>>), Q("insert", 1, <<1, 11, 31>>)>>,
     <<Q("insert", 3, <<3, 30, 30>>), Q("sum", 1, <<0, 1>>)>>,
     <<Q("update", 1, <<None, 7, None>>), Q("update", 3, <<None, 8, 9>>)>>,
     <<Q("update", 1, <<None, 7, None>>), Q("delete", 1, <<>>),
       Q("select", 1, <<1, 1, 1>>)>>,
     <<Q("select", 1, <<1, 1, 1>>), Q("sum", 1, <<2, 1>>)>>,
     <<Q("delete", 2, <<>>)>>,
     <<Q("update", 2, <<None, None, 9>>),
       QOn(OtherName, "update", 2, <<None, None, 9>>)>>,
     <<QOn(OtherName, "update", 2, <<None, 8, None>>),
       Q("update", 2, <<None, 8, None>>)>>}

\* Transaction._get_lock_ids: (lock id, granularity), coarsest first.
get_lock_ids(tb, rid) ==
    LET page_path == tb.page_directory[rid][1]
        record_offset == tb.page_directory[rid][2]
    IN  <<<<tb.name>>,
          <<tb.name, page_path[1]>>,
          <<tb.name, page_path[1], page_path[2], page_path[3]>>,
          <<tb.name, page_path[1], page_path[2], page_path[3], record_offset>>>>

locks_to_acquire_finest_first(tb, rid) ==
    LET ids == get_lock_ids(tb, rid)
    IN  <<<<ids[4], "RECORD">>, <<ids[3], "PAGE">>,
          <<ids[2], "PAGE_RANGE">>, <<ids[1], "TABLE">>>>

\* The lock hierarchy of _acquire_operation_locks, coarsest first.
locks_to_acquire(tb, rid) ==
    LET ids == get_lock_ids(tb, rid)
    IN  <<<<ids[1], "TABLE">>, <<ids[2], "PAGE_RANGE">>,
          <<ids[3], "PAGE">>, <<ids[4], "RECORD">>>>

\* held_locks[item_id] = (granularity, lock_mode) on an OrderedDict: a new
\* key goes last, a key already present keeps its place.
held_locks_set(held, item_id, granularity, lock_mode) ==
    IF \E j \in 1..Len(held) : held[j][1] = item_id
    THEN [j \in 1..Len(held) |->
            IF held[j][1] = item_id
            THEN <<item_id, granularity, lock_mode>>
            ELSE held[j]]
    ELSE Append(held, <<item_id, granularity, lock_mode>>)

\* any("update" in q.__name__ or "insert" in q.__name__ for q in queries)
overall_exclusive(qs) ==
    \E j \in 1..Len(qs) : IsUpdate(qs[j].op) \/ IsInsert(qs[j].op)

\* query(*args) of a queued query: [table, ok, raised].
run_query(tb_0, q_0) ==
    CHOOSE result_ \in {
        LET returned(r) == [table |-> r.table, ok |-> r.ok, raised |-> r.raised]
        IN  returned(CASE q.op = "insert" -> insert(tb, q.rest)
                       [] q.op = "update" -> update(tb, q.key, q.rest)
                       [] q.op = "delete" -> delete(tb, q.key)
                       [] q.op = "select" -> select(tb, q.key, 0, q.rest)
                       [] q.op = "sum" -> sum(tb, q.key, q.rest[1], q.rest[2]))
      : tb \in {tb_0}, q \in {q_0}} : TRUE

\* ------------------------------------------------------- direct queries
\* Arguments of the queries issued against the table.
InsertArgs == {<<k, 10 * k, 30>> : k \in Keys}

UpdateArgs == {<<None, 7, None>>, <<None, None, 9>>, <<None, 8, 9>>}

VARIABLES
    table,      \* the Table object with its pages, page directory and index
    other,      \* the Table object of the second table
    ret,        \* the last query issued and its outcome: [op, key, ok, raised]
    versions,   \* per inserted key, the column values after the insert and
                \* after each later successful update, oldest first
    deletes,    \* the keys delete returned True for
    lock_table, \* the shared lock manager's table
    queries,    \* per transaction, its queue
    changes,    \* per transaction, its rollback log of (table, key,
                \* is_insert)
    held_locks, \* per transaction, (lock id, granularity, mode) in the
                \* order of acquisition
    ctl,        \* per transaction, where run() is: [pc, i, lock_mode,
                \* pending, k, committing, dupe_error]
    result,     \* per transaction, what run() returned: (bool, flag)
    failure,    \* per transaction, what made run() abort: [why, op, existed]
    log,        \* per transaction, the calls run() has made, oldest first:
                \* [ev, id, ok, i] with ev one of "acquire", "locate",
                \* "query", "rollback", "release", "return", id the lock id
                \* of an acquire or release, ok the call's result, i the
                \* position in the queue (in the change log for a rollback)
    ix,         \* an Index object used on its own
    added,      \* the records added to ix through add_record, oldest first
    btree,      \* a BPlusTree object used on its own
    puts        \* the keys put into btree, oldest first

tvars == <<table, ret, versions, deletes>>

\* The tables and what is known of their history.
dvars == <<table, other, versions, deletes>>

\* The Index used on its own.
ivars == <<ix, added, btree, puts>>

\* The BPlusTree used on its own.
bvars == <<btree, puts>>

xvars == <<other, lock_table, queries, changes, held_locks, ctl, result,
           failure, log, ix, added, btree, puts>>

vars == <<table, other, ret, versions, deletes,
          lock_table, queries, changes, held_locks, ctl, result, failure,
          log, ix, added, btree, puts>>

\* The keys insert returned True for.
Inserted == DOMAIN versions

\* cols applied on top of the values prev: None leaves a column as it was.
Merged(prev, cols) ==
    [i \in 1..Len(prev) |-> IF cols[i] # None THEN cols[i] ELSE prev[i]]

NoResult == <<FALSE, "running">>

NoFailure == [why |-> "none", op |-> "none", existed |-> FALSE]

CtlInit ==
    [pc |-> "init", i |-> 1, lock_mode |-> SHARED, pending |-> <<>>,
     k |-> 0, committing |-> FALSE, dupe_error |-> FALSE]

\* Transaction.__init__ for every transaction, none of them run.
TxInit(qs) ==
    /\ lock_table = <<>>
    /\ queries = qs
    /\ changes = [t \in Txns |-> <<>>]
    /\ held_locks = [t \in Txns |-> <<>>]
    /\ ctl = [t \in Txns |-> CtlInit]
    /\ result = [t \in Txns |-> NoResult]
    /\ failure = [t \in Txns |-> NoFailure]
    /\ log = [t \in Txns |-> <<>>]
    /\ ix = IndexInit
    /\ added = <<>>
    /\ btree = BPlusTree(TreeOrder)
    /\ puts = <<>>

Init ==
    /\ table = TableInit
    /\ other = [TableInit EXCEPT !.name = OtherName]
    /\ ret = [op |-> "none", key |-> None, ok |-> TRUE, raised |-> FALSE]
    /\ versions = <<>>
    /\ deletes = {}
    /\ TxInit([t \in Txns |-> <<>>])

Insert(columns) ==
    LET returned(r) ==
            /\ table' = r.table
            /\ ret' = [op |-> "insert", key |-> columns[1], ok |-> r.ok,
                       raised |-> r.raised]
            /\ versions' = IF r.ok THEN (columns[1] :> <<columns>>) @@ versions
                           ELSE versions
            /\ UNCHANGED deletes
    IN  /\ returned(insert(table, columns))
        /\ UNCHANGED xvars

Update(primary_key, columns) ==
    LET returned(r) ==
            /\ r.table.current_tail_rid <= MaxTailRid
            /\ table' = r.table
            /\ ret' = [op |-> "update", key |-> primary_key,
                       ok |-> r.ok, raised |-> r.raised]
            /\ versions' =
                 IF r.ok
                 THEN [versions EXCEPT ![primary_key] = Append(@, Merged(Last(@), columns))]
                 ELSE versions
            /\ UNCHANGED deletes
    IN  /\ returned(update(table, primary_key, columns))
        /\ UNCHANGED xvars

Delete(primary_key) ==
    LET returned(r) ==
            /\ r.table.current_tail_rid <= MaxTailRid
            /\ table' = r.table
            /\ ret' = [op |-> "delete", key |-> primary_key,
                       ok |-> r.ok, raised |-> r.raised]
            /\ deletes' = IF r.ok THEN deletes \cup {primary_key} ELSE deletes
            /\ UNCHANGED versions
    IN  /\ returned(delete(table, primary_key))
        /\ UNCHANGED xvars

Next ==
    \/ \E columns \in InsertArgs : Insert(columns)
    \/ \E k \in Keys, columns \in UpdateArgs : Update(k, columns)
    \/ \E k \in Keys : Delete(k)

Spec == Init /\ [][Next]_vars

\* ------------------------------------------------- Index on its own
\* The most records added to the Index.
MaxAdded == 4

\* The column values of the records added: keys in and out of order, equal
\* values in a column, and columns left None.
RecordArgs ==
    {<<3, 10, None>>, <<1, 20, 30>>, <<5, 10, 50>>, <<2, None, 30>>,
     <<4, 40, 20>>, <<None, 50, 40>>}

\* The values has_key is asked for: every value of RecordArgs, and 60.
ColumnValues == 1..5 \cup {10, 20, 30, 40, 50, 60}

\* Everything but the Index used on its own.
nvars == <<table, other, versions, deletes, lock_table, queries, changes,
           held_locks, ctl, result, failure, log>>

\* index.add_record(record) of a new base record.
AddRecord(columns) ==
    /\ Len(added) < MaxAdded
    /\ \E record \in {[rid |-> BaseRid(Len(added)), columns |-> columns]} :
          /\ ix' = add_record(ix, record)
          /\ added' = Append(added, record)
    /\ ret' = [op |-> "add_record", key |-> columns[1], ok |-> TRUE,
               raised |-> FALSE]
    /\ UNCHANGED <<nvars, bvars>>

\* index.flush_cache()
FlushCache ==
    /\ ix' = flush_cache(ix)
    /\ ret' = [op |-> "flush_cache", key |-> None, ok |-> TRUE,
               raised |-> FALSE]
    /\ UNCHANGED <<added, nvars, bvars>>

IndexNext ==
    \/ \E columns \in RecordArgs : AddRecord(columns)
    \/ FlushCache

IndexSpec == Init /\ [][IndexNext]_vars

\* --------------------------------------------- BPlusTree on its own
\* The most keys put into the tree; the keys put are 1..MaxPut.
MaxPut == 7

\* The orders of the trees: with order 3 a node splits at 2 keys, so that
\* MaxPut keys split leaves, the root and internal nodes.
TreeOrders == {3, 4}

\* The value put under a key.
ValueOf(key) == <<"b", key>>

\* BPlusTree(order) for one of the orders; the rest as in Init.
TreeInit ==
    /\ table = TableInit
    /\ other = [TableInit EXCEPT !.name = OtherName]
    /\ ret = [op |-> "none", key |-> None, ok |-> TRUE, raised |-> FALSE]
    /\ versions = <<>>
    /\ deletes = {}
    /\ lock_table = <<>>
    /\ queries = [t \in Txns |-> <<>>]
    /\ changes = [t \in Txns |-> <<>>]
    /\ held_locks = [t \in Txns |-> <<>>]
    /\ ctl = [t \in Txns |-> CtlInit]
    /\ result = [t \in Txns |-> NoResult]
    /\ failure = [t \in Txns |-> NoFailure]
    /\ log = [t \in Txns |-> <<>>]
    /\ ix = IndexInit
    /\ added = <<>>
    /\ \E order \in TreeOrders : btree = BPlusTree(order)
    /\ puts = <<>>

\* tree[key] = value for a key not put before.
Put(key) ==
    /\ key \notin Range(puts)
    /\ btree' = tree_setitem(btree, key, ValueOf(key))
    /\ puts' = Append(puts, key)
    /\ UNCHANGED <<nvars, ix, added, ret>>

TreeNext == \E key \in 1..MaxPut : Put(key)

TreeSpec == TreeInit /\ [][TreeNext]_vars

\* ------------------------------------------- base page allocation
\* Bound on the primary keys inserted (a table holds any number of records):
\* the fifth insert fills pagerange 0 and opens pagerange 1.
MaxKey == 5

\* Bound on the tail RID counter while that many keys are inserted.
MaxTail == 3

ManyInsertArgs == {<<k, 10 * k, 30>> : k \in 1..MaxKey}

FewUpdateArgs == {<<None, 7, None>>}

ManyInsert == \E columns \in ManyInsertArgs : Insert(columns)

FewUpdate ==
    /\ table.current_tail_rid < MaxTail
    /\ \E k \in 1..MaxKey, columns \in FewUpdateArgs : Update(k, columns)

FewDelete ==
    /\ table.current_tail_rid < MaxTail
    /\ \E k \in 1..MaxKey : Delete(k)

AllocNext == ManyInsert \/ FewUpdate \/ FewDelete

AllocSpec == Init /\ [][AllocNext]_vars

\* ---------------------------------------------------- Transaction.run
\* The table the transactions run against: keys 1 and 2 loaded by direct
\* inserts, key 3 not inserted.
LoadedTable ==
    insert(insert(TableInit, <<1, 10, 30>>).table, <<2, 20, 30>>).table

TxSpecInit ==
    /\ table = LoadedTable
    /\ other = [LoadedTable EXCEPT !.name = OtherName]
    /\ ret = [op |-> "insert", key |-> 2, ok |-> TRUE, raised |-> FALSE]
    /\ versions = (1 :> <<<<1, 10, 30>>>>) @@ (2 :> <<<<2, 20, 30>>>>)
    /\ deletes = {}
    /\ \E qs \in [Txns -> Programs] : TxInit(qs)

\* A run() that, where it should abort, goes on with the next queued
\* query when there is one.
abort_skip(c, t, dupe_error) ==
    IF c.pc \in {"next", "locks"} /\ c.i < Len(queries[t])
    THEN [c EXCEPT !.pc = "next", !.i = @ + 1, !.pending = <<>>]
    ELSE [c EXCEPT !.pc = IF changes[t] = <<>> THEN "release" ELSE "rollback",
                   !.k = IF changes[t] = <<>> THEN Len(held_locks[t])
                         ELSE Len(changes[t]),
                   !.committing = FALSE,
                   !.dupe_error = dupe_error,
                   !.pending = <<>>]

\* Where abort() starts: the rollback loop if changes were logged, else
\* the release of the locks.
abort(c, t, dupe_error) ==
    [c EXCEPT !.pc = IF changes[t] = <<>> THEN "release" ELSE "rollback",
              !.k = IF changes[t] = <<>> THEN Len(held_locks[t])
                    ELSE Len(changes[t]),
              !.committing = FALSE,
              !.dupe_error = dupe_error,
              !.pending = <<>>]

\* commit() without its release loop.
commit_no_release(c, t) ==
    [c EXCEPT !.pc = "release", !.k = 0, !.committing = TRUE]

\* Where commit() starts: the release of the locks.
commit(c, t) ==
    [c EXCEPT !.pc = "release", !.k = Len(held_locks[t]), !.committing = TRUE]

\* The table a queued query was queued for.
TableOf(name) == IF name = TableName THEN table ELSE other

\* The table object of that name after a call that changed it.
SetTable(name, tb) ==
    IF name = TableName
    THEN table' = tb /\ UNCHANGED other
    ELSE other' = tb /\ UNCHANGED table

\* One call of run(), as the event log records it.
Event(ev, id, ok, i) == [ev |-> ev, id |-> id, ok |-> ok, i |-> i]

Logged(t, e) == log' = [log EXCEPT ![t] = Append(@, e)]

\* run(): overall_exclusive is decided and the loop over the queue starts.
Run(t) ==
    /\ ctl[t].pc = "init"
    /\ ctl' = [ctl EXCEPT ![t] =
                 IF queries[t] = <<>>
                 THEN commit(ctl[t], t)
                 ELSE [ctl[t] EXCEPT
                         !.pc = "next", !.i = 1,
                         !.lock_mode = IF overall_exclusive(queries[t])
                                       THEN EXCLUSIVE ELSE SHARED]]
    /\ UNCHANGED <<tvars, other, lock_table, queries, changes, held_locks,
                   result, failure, log, ivars>>

\* _acquire_insert_locks for an insert: the table lock only.
AcquireInsertLocks(t) ==
    LET q == queries[t][ctl[t].i]
        requested(got) ==
            /\ lock_table' = got.lock_table
            /\ Logged(t, Event("acquire", <<q.name>>, got.granted, ctl[t].i))
            /\ IF got.granted
               THEN /\ held_locks' = [held_locks EXCEPT ![t] =
                          held_locks_set(@, <<q.name>>, "TABLE",
                                         ctl[t].lock_mode)]
                    /\ ctl' = [ctl EXCEPT ![t].pc = "exec"]
                    /\ UNCHANGED failure
               ELSE /\ ctl' = [ctl EXCEPT ![t] = abort(@, t, FALSE)]
                    /\ failure' = [failure EXCEPT ![t] =
                          [why |-> "lock", op |-> q.op, existed |-> FALSE]]
                    /\ UNCHANGED held_locks
    IN  /\ ctl[t].pc = "next"
        /\ IsInsert(q.op)
        /\ \E got \in {acquire_lock(lock_table, t, <<q.name>>,
                                     ctl[t].lock_mode)} : requested(got)
        /\ UNCHANGED <<tvars, other, queries, changes, result, ivars>>

\* table.index.locate(0, args[0]) for every other query, then the lock ids
\* of the located record.
LocateTarget(t) ==
    LET q == queries[t][ctl[t].i]
        looked_up(tb, located) ==
            /\ SetTable(q.name, [tb EXCEPT !.index = located.index])
            /\ Logged(t, Event("locate", <<>>, located.found, ctl[t].i))
            /\ IF located.found
               THEN /\ ctl' = [ctl EXCEPT
                                 ![t].pc = "locks",
                                 ![t].pending =
                                    locks_to_acquire(tb, located.rid)]
                    /\ UNCHANGED failure
               ELSE /\ ctl' = [ctl EXCEPT ![t] = abort(@, t, FALSE)]
                    /\ failure' = [failure EXCEPT ![t] =
                          [why |-> "locate", op |-> q.op, existed |-> FALSE]]
    IN  /\ ctl[t].pc = "next"
        /\ ~IsInsert(q.op)
        /\ \E tb \in {TableOf(q.name)} :
              \E located \in {locate(tb.index, 0, q.key)} :
                  looked_up(tb, located)
        /\ UNCHANGED <<ret, versions, deletes, lock_table, queries, changes,
                       held_locks, result, ivars>>

\* A pass of the loop of _acquire_operation_locks over a lock manager that
\* blocks the caller until the lock can be granted.
AcquireOperationLockWait(t) ==
    LET item == ctl[t].pending[1]
        requested(got) ==
            /\ got.granted
            /\ lock_table' = got.lock_table
            /\ Logged(t, Event("acquire", item[1], TRUE, ctl[t].i))
            /\ held_locks' = [held_locks EXCEPT ![t] =
                  held_locks_set(@, item[1], item[2], ctl[t].lock_mode)]
            /\ ctl' = [ctl EXCEPT
                         ![t].pending = Tail(@),
                         ![t].pc = IF Len(ctl[t].pending) = 1
                                   THEN "exec" ELSE "locks"]
    IN  /\ ctl[t].pc = "locks"
        /\ \E got \in {acquire_lock(lock_table, t, item[1],
                                     ctl[t].lock_mode)} : requested(got)
        /\ UNCHANGED <<tvars, other, queries, changes, result, failure, ivars>>

\* One pass of the loop of _acquire_operation_locks.
AcquireOperationLock(t) ==
    LET q == queries[t][ctl[t].i]
        item == ctl[t].pending[1]
        requested(got) ==
            /\ lock_table' = got.lock_table
            /\ Logged(t, Event("acquire", item[1], got.granted, ctl[t].i))
            /\ IF got.granted
               THEN /\ held_locks' = [held_locks EXCEPT ![t] =
                          held_locks_set(@, item[1], item[2], ctl[t].lock_mode)]
                    /\ ctl' = [ctl EXCEPT
                                 ![t].pending = Tail(@),
                                 ![t].pc = IF Len(ctl[t].pending) = 1
                                           THEN "exec" ELSE "locks"]
                    /\ UNCHANGED failure
               ELSE /\ ctl' = [ctl EXCEPT ![t] = abort(@, t, FALSE)]
                    /\ failure' = [failure EXCEPT ![t] =
                          [why |-> "lock", op |-> q.op, existed |-> FALSE]]
                    /\ UNCHANGED held_locks
    IN  /\ ctl[t].pc = "locks"
        /\ \E got \in {acquire_lock(lock_table, t, item[1],
                                     ctl[t].lock_mode)} : requested(got)
        /\ UNCHANGED <<tvars, other, queries, changes, result, ivars>>

\* run() passing dupe_error for every query that returns False.
after_query_dupe(op, ok, raised) ==
    IF raised THEN [aborts |-> TRUE, dupe_error |-> FALSE]
    ELSE IF ~ok THEN [aborts |-> TRUE, dupe_error |-> TRUE]
    ELSE [aborts |-> FALSE, dupe_error |-> FALSE]

\* What run() does with the result of query(*args): the pc it goes to and
\* the dupe_error it passes to abort.
after_query(op, ok, raised) ==
    IF raised THEN [aborts |-> TRUE, dupe_error |-> FALSE]
    ELSE IF ~ok THEN [aborts |-> TRUE, dupe_error |-> IsInsert(op)]
    ELSE [aborts |-> FALSE, dupe_error |-> FALSE]

\* self.changes.append(...) after a successful query.
log_change(changed, q) ==
    IF IsInsert(q.op)
    THEN Append(changed, [name |-> q.name, key |-> q.key, is_insert |-> TRUE])
    ELSE IF IsUpdate(q.op)
    THEN Append(changed, [name |-> q.name, key |-> q.key, is_insert |-> FALSE])
    ELSE changed

\* result = query(*args) and what run() does with the result.
ExecuteQuery(t) ==
    LET q == queries[t][ctl[t].i]
        appended == log_change(changes[t], q)
        tracked == q.name = TableName
        returned(r) ==
            LET then == after_query(q.op, r.ok, r.raised)
            IN  /\ SetTable(q.name, r.table)
                /\ Logged(t, Event("query", <<>>, r.ok /\ ~r.raised, ctl[t].i))
                /\ versions' =
                     IF tracked /\ r.ok /\ q.op = "insert"
                     THEN (q.key :> <<q.rest>>) @@ versions
                     ELSE IF tracked /\ r.ok /\ q.op = "update"
                     THEN [versions EXCEPT
                             ![q.key] = Append(@, Merged(Last(@), q.rest))]
                     ELSE versions
                /\ deletes' = IF tracked /\ r.ok /\ q.op = "delete"
                              THEN deletes \cup {q.key} ELSE deletes
                /\ IF then.aborts
                   THEN /\ ctl' = [ctl EXCEPT
                                     ![t] = abort(@, t, then.dupe_error)]
                        /\ failure' = [failure EXCEPT ![t] =
                              [why |-> IF r.raised THEN "raised" ELSE "false",
                               op |-> q.op,
                               existed |-> q.key \in Inserted]]
                        /\ UNCHANGED changes
                   ELSE /\ changes' = [changes EXCEPT ![t] = appended]
                        /\ ctl' = [ctl EXCEPT ![t] =
                                     IF ctl[t].i = Len(queries[t])
                                     THEN [commit(@, t) EXCEPT !.i = ctl[t].i + 1]
                                     ELSE [@ EXCEPT !.pc = "next", !.i = @ + 1]]
                        /\ UNCHANGED failure
    IN  /\ ctl[t].pc = "exec"
        /\ \E r \in {run_query(TableOf(q.name), q)} : returned(r)
        /\ UNCHANGED <<ret, lock_table, queries, held_locks, result, ivars>>

\* The query abort() issues for one logged change.
rollback_query(tb, change) == delete(tb, change.key)

\* One pass of the rollback loop of abort(), newest change first; an
\* exception of the query is swallowed.
Rollback(t) ==
    LET change == changes[t][ctl[t].k]
        returned(r) ==
            /\ SetTable(change.name, r.table)
            /\ Logged(t, Event("rollback", <<>>, r.ok /\ ~r.raised, ctl[t].k))
            /\ deletes' = IF r.ok /\ change.name = TableName
                          THEN deletes \cup {change.key} ELSE deletes
    IN  /\ ctl[t].pc = "rollback"
        /\ \E r \in {rollback_query(TableOf(change.name), change)} :
              returned(r)
        /\ ctl' = [ctl EXCEPT
                     ![t].pc = IF ctl[t].k = 1 THEN "release" ELSE "rollback",
                     ![t].k = IF ctl[t].k = 1 THEN Len(held_locks[t]) ELSE @ - 1]
        /\ UNCHANGED <<ret, versions, lock_table, queries, changes, held_locks,
                       result, failure, ivars>>

\* A release loop over held_locks in acquisition order.
release_forward(held) == [j \in 1..Len(held) |-> held[j][1]]

\* The locks commit() and abort() release, in the order they release them.
release_order(held) == [j \in 1..Len(held) |-> held[Len(held) + 1 - j][1]]

\* A release loop that also runs between two queries of the queue, giving
\* back the lock acquired last.
ReleaseLockEarly(t) ==
    LET order == release_order(held_locks[t])
        item_id == order[Len(order) + 1 - ctl[t].k]
        newest == Last(held_locks[t])[1]
    IN  \/ /\ ctl[t].pc = "release"
           /\ ctl[t].k >= 1
           /\ lock_table' = release_lock(lock_table, t, item_id)
           /\ Logged(t, Event("release", item_id, TRUE, ctl[t].i))
           /\ ctl' = [ctl EXCEPT ![t].k = @ - 1]
           /\ UNCHANGED <<tvars, other, queries, changes, held_locks, result,
                          failure, ivars>>
        \/ /\ ctl[t].pc = "next"
           /\ held_locks[t] # <<>>
           /\ lock_table' = release_lock(lock_table, t, newest)
           /\ Logged(t, Event("release", newest, TRUE, ctl[t].i))
           /\ held_locks' = [held_locks EXCEPT
                               ![t] = SubSeq(@, 1, Len(@) - 1)]
           /\ UNCHANGED <<tvars, other, queries, changes, ctl, result,
                          failure, ivars>>

\* One pass of the release loop of commit() and abort().
ReleaseLock(t) ==
    LET order == release_order(held_locks[t])
        item_id == order[Len(order) + 1 - ctl[t].k]
    IN  /\ ctl[t].pc = "release"
        /\ ctl[t].k >= 1
        /\ lock_table' = release_lock(lock_table, t, item_id)
        /\ Logged(t, Event("release", item_id, TRUE, ctl[t].i))
        /\ ctl' = [ctl EXCEPT ![t].k = @ - 1]
        /\ UNCHANGED <<tvars, other, queries, changes, held_locks, result,
                       failure, ivars>>

\* What run() returns: commit() gives (True, None), abort() gives
\* (False, "dupe_error") or (False, None).
return_value(committing, dupe_error) ==
    IF committing THEN <<TRUE, "None">>
    ELSE <<FALSE, IF dupe_error THEN "dupe_error" ELSE "None">>

\* held_locks.clear() and the return of run().
Return(t) ==
    /\ ctl[t].pc = "release"
    /\ ctl[t].k = 0
    /\ held_locks' = [held_locks EXCEPT ![t] = <<>>]
    /\ result' = [result EXCEPT ![t] =
                    return_value(ctl[t].committing, ctl[t].dupe_error)]
    /\ Logged(t, Event("return", <<>>, ctl[t].committing, ctl[t].i))
    /\ ctl' = [ctl EXCEPT ![t].pc = "done"]
    /\ UNCHANGED <<tvars, other, lock_table, queries, changes, failure, ivars>>

\* One step of the thread that runs transaction t.
Step(t) ==
    \/ Run(t)
    \/ AcquireInsertLocks(t)
    \/ LocateTarget(t)
    \/ AcquireOperationLock(t)
    \/ ExecuteQuery(t)
    \/ Rollback(t)
    \/ ReleaseLock(t)
    \/ Return(t)

TxNext == \E t \in Txns : Step(t)

TxSpec == TxSpecInit /\ [][TxNext]_vars

\* Every transaction runs on a thread of its own, and a thread that can
\* take a step is scheduled in the end.
TxFairSpec == TxSpec /\ \A t \in Txns : WF_vars(Step(t))

\* ------------------------------------------- run() on the same object
\* Bound on the calls of run() on one Transaction object (the code sets none).
MaxRuns == 2

\* The calls of run() on transaction t that have returned.
Returns(t) == {j \in DOMAIN log[t] : log[t][j].ev = "return"}

\* run() is called again on a Transaction object that has returned:
\* queries, changes and held_locks are the object's attributes and are what
\* the last run left, and run() itself resets none of them.
Rerun(t) ==
    /\ ctl[t].pc = "done"
    /\ Cardinality(Returns(t)) < MaxRuns
    /\ ctl' = [ctl EXCEPT ![t] = CtlInit]
    /\ result' = [result EXCEPT ![t] = NoResult]
    /\ failure' = [failure EXCEPT ![t] = NoFailure]
    /\ UNCHANGED <<tvars, other, lock_table, queries, changes, held_locks,
                   log, ivars>>

RerunNext == TxNext \/ \E t \in Txns : Rerun(t)

RerunSpec == TxSpecInit /\ [][RerunNext]_vars

\* ------------------------------------------------------------ properties
AllOnes == [i \in 1..num_columns |-> 1]

\* Arguments of the reading queries.
RangeBounds == 0..4
VersionArgs == (0 - MaxTailRid - 1)..0

\* The base record of an inserted key, as the page directory locates it.
BaseRecordOf(k) == read_record(table, table.index.primary_key_cache[k]).record

RECURSIVE SumOver(_, _)
SumOver(ks, f) ==
    IF ks = {}
    THEN 0
    ELSE LET k == CHOOSE x \in ks : TRUE
         IN  f[k] + SumOver(ks \ {k}, f)

\* C1: after insert(k, ...) and a successful delete(k), select(k, 0, all
\* ones) returns one record whose columns are all None, and the base
\* record's indirection names the all-None tombstone.
C1_DeleteThenSelectAllNull ==
    (ret.op = "delete" /\ ret.ok) =>
        LET r == select(table, ret.key, 0, AllOnes)
            newest == read_record(table, BaseRecordOf(ret.key).indirection)
        IN  /\ r.ok
            /\ Len(r.records) = 1
            /\ r.records[1].columns = Nones(num_columns)
            /\ newest.ok
            /\ newest.record.columns = Nones(num_columns)

\* C2: with inserts and updates only, select(k, 0, all ones) returns exactly
\* one record, and its value in each column is the one given by the latest
\* update that supplied that column, or the inserted value if none did.
C2_SelectReturnsNewest ==
    deletes = {} =>
        \A k \in Inserted :
            LET r == select(table, k, 0, AllOnes)
            IN  /\ r.ok
                /\ Len(r.records) = 1
                /\ r.records[1].columns = Last(versions[k])

C2_Witness ==
    /\ deletes = {}
    /\ 1 \in Inserted
    /\ versions[1] = <<<<1, 10, 30>>, <<1, 7, 30>>, <<1, 7, 9>>>>
    /\ select(table, 1, 0, AllOnes).records[1].columns = <<1, 7, 9>>

C5_SumVersionMatchesSelectVersion ==
    deletes = {} =>
        \A lo \in RangeBounds, hi \in RangeBounds, col \in Columns :
            \A v \in VersionArgs :
                LET r == sum_version(table, lo, hi, col, v)
                    ks == {k \in Inserted : lo <= k /\ k <= hi}
                    at == [k \in ks |->
                             select_version(table, k, 0, AllOnes, v)
                                .records[1].columns[col + 1]]
                IN  ks # {} => r.ok /\ r.value = SumOver(ks, at)

\* The stored data a failed query must leave alone.
Stored(tb) ==
    <<tb.page_directory, tb.current_base_rid, tb.current_tail_rid, tb.frames,
      tb.pr_unmerged_updates, tb.index.primary_key_cache,
      tb.index.sorted_records>>

\* C6: insert of a key that exists, and update or delete of a key never
\* inserted, return False and leave the page directory, the RID counters,
\* every page, pr_unmerged_updates, primary_key_cache and sorted_records
\* as they were.
C6_FailedQueryChangesNothing ==
    [][/\ (ret'.op = "insert" /\ ret'.key \in Inserted) =>
            (~ret'.ok /\ ~ret'.raised /\ Stored(table') = Stored(table))
       /\ (ret'.op \in {"update", "delete"} /\ ret'.key \notin Inserted) =>
            (~ret'.ok /\ ~ret'.raised /\ Stored(table') = Stored(table))
       /\ (~ret'.ok /\ ~ret'.raised) => Stored(table') = Stored(table)]_vars

C6_Witness ==
    /\ ret.op = "update"
    /\ ~ret.ok
    /\ ~ret.raised
    /\ ret.key \notin Inserted
    /\ table.current_base_rid >= 2
    /\ table.current_tail_rid >= 2
    /\ table.index.unsorted_cache[1] = <<>>
    /\ table.index.indices[1].size = 2


\* The locks transaction t holds in the lock manager.
LocksOf(t) == {id \in DOMAIN lock_table : t \in lock_table[id].holders}

Returned(t) == ctl[t].pc = "done"

C8_AbortedInsertsRolledBack ==
    \A t \in Txns :
        (Returned(t) /\ ~result[t][1]) =>
            \A j \in 1..Len(changes[t]) :
                (changes[t][j].is_insert /\ changes[t][j].name = TableName) =>
                    LET r == select(table, changes[t][j].key, 0, AllOnes)
                    IN  ~(/\ r.ok
                          /\ Len(r.records) = 1
                          /\ r.records[1].columns = versions[changes[t][j].key][1])

\* C9: the pass of abort's rollback loop over a logged update leaves the
\* stored data as it was, no tail record is appended, and the record keeps
\* the values of the update.
C9_AbortSkipsLoggedUpdates ==
    [][\A t \in Txns :
          (/\ ctl[t].pc = "rollback"
           /\ ctl'[t] # ctl[t]
           /\ ~changes[t][ctl[t].k].is_insert
           /\ changes[t][ctl[t].k].name = TableName)
          => /\ Stored(table') = Stored(table)
             /\ table'.current_tail_rid = table.current_tail_rid
             /\ LET r == select(table', changes[t][ctl[t].k].key, 0, AllOnes)
                IN  r.ok /\ r.records[1].columns
                              = Last(versions[changes[t][ctl[t].k].key])]_vars

\* C10: once run() has returned, by commit or by any abort, the transaction
\* holds no lock in the lock manager and its held_locks is empty.
C10_NoLockHeldAfterRun ==
    \A t \in Txns : Returned(t) => (LocksOf(t) = {} /\ held_locks[t] = <<>>)

C10_Witness ==
    /\ Returned(1) /\ Returned(2)
    /\ result[1][1] /\ changes[1] # <<>>
    /\ failure[2].why = "raised"
    /\ LocksOf(1) = {} /\ LocksOf(2) = {}
    /\ held_locks[1] = <<>> /\ held_locks[2] = <<>>

\* The events of transaction t's log of the given kinds, as positions.
EventsOf(t, kinds) == {j \in DOMAIN log[t] : log[t][j].ev \in kinds}

\* C11: strict two-phase locking.  Every release_lock call of a run comes
\* after its last acquire_lock call, after its last index lookup and after
\* its last query, the deletes of abort's rollback included: once run() has
\* released a lock it only releases locks and returns, and a lock leaves the
\* lock manager only inside the release loop of commit() or abort().
C11_StrictTwoPhaseLocking ==
    \A t \in Txns :
        /\ \A j \in EventsOf(t, {"release"}) :
              \A k \in EventsOf(t, {"acquire", "locate", "query", "rollback"}) :
                  k < j
        /\ Cardinality(LocksOf(t)) < Len(held_locks[t])
              => ctl[t].pc = "release"

C11_Witness ==
    /\ Returned(1) /\ Returned(2)
    /\ result[1][1] /\ ~result[2][1]
    /\ Cardinality(EventsOf(1, {"release"})) >= 4
    /\ EventsOf(1, {"query"}) # {}
    /\ EventsOf(2, {"rollback"}) # {}
    /\ EventsOf(2, {"release"}) # {}

\* A sequence without the later occurrences of its elements.
RECURSIVE FirstOccurrences(_)
FirstOccurrences(s) ==
    IF s = <<>> THEN <<>>
    ELSE LET kept(rest) == IF \E j \in DOMAIN rest : rest[j] = Last(s)
                           THEN rest ELSE Append(rest, Last(s))
         IN  kept(FirstOccurrences(SubSeq(s, 1, Len(s) - 1)))

\* The lock ids transaction t was granted, in the order of their first grant.
FirstAcquired(t) ==
    LET granted(e) == e.ev = "acquire" /\ e.ok
        ids(es) == [j \in DOMAIN es |-> es[j].id]
    IN  FirstOccurrences(ids(SelectSeq(log[t], granted)))

\* The lock ids transaction t has released, in the order of the releases.
Released(t) ==
    LET released(e) == e.ev = "release"
        ids(es) == [j \in DOMAIN es |-> es[j].id]
    IN  ids(SelectSeq(log[t], released))

\* Lock id a names a granule that contains the granule of lock id b.
Covers(a, b) == Len(a) < Len(b) /\ SubSeq(b, 1, Len(a)) = a

\* C12: commit() and abort() release the locks in the exact reverse of the
\* order of their first acquisition, and all of them by the time run()
\* returns; so the lock acquired first, a table lock, is released last, and
\* a lock is released before every lock that covers it (record before page,
\* page range and table).
C12_ReleaseInReverseAcquisitionOrder ==
    \A t \in Txns :
        LET acquired == FirstAcquired(t)
            released == Released(t)
        IN  /\ Len(released) <= Len(acquired)
            /\ \A j \in DOMAIN released :
                  released[j] = acquired[Len(acquired) + 1 - j]
            /\ Returned(t) => Len(released) = Len(acquired)
            /\ (Returned(t) /\ released # <<>>) =>
                  (Len(Last(released)) = 1 /\ Last(released) = acquired[1])
            /\ \A j, k \in DOMAIN released :
                  Covers(released[j], released[k]) => k < j

C12_Witness ==
    /\ Returned(1) /\ Returned(2)
    /\ result[1][1] /\ ~result[2][1]
    /\ Len(Released(1)) >= 7
    /\ \E j \in DOMAIN Released(1) : Released(1)[j][1] = OtherName
    /\ Released(1)[1][1] # Last(Released(1))[1]
    /\ Len(Released(2)) >= 1
    /\ Cardinality(EventsOf(2, {"query"})) >= 1

\* The positions in transaction t's log of an acquire_lock call that
\* returned false or of an index lookup that did not locate the key.
Refusals(t) ==
    {j \in EventsOf(t, {"acquire", "locate"}) : ~log[t][j].ok}

\* C13: no-wait abort.  After an acquire_lock call returned false, or the
\* index did not locate the key of an operation that is not an insert, run()
\* makes no further acquire_lock call and no further lookup, runs neither
\* that operation nor a later one of the queue, and is in abort(): only the
\* rollback, the releases and the return follow, and run() returns failure.
C13_NoWaitAbort ==
    \A t \in Txns :
        \A j \in Refusals(t) :
            /\ \A k \in DOMAIN log[t] :
                  k > j => log[t][k].ev \in {"rollback", "release", "return"}
            /\ \A k \in EventsOf(t, {"query"}) : log[t][k].i < log[t][j].i
            /\ ctl[t].pc \in {"rollback", "release", "done"}
            /\ ~ctl[t].committing
            /\ Returned(t) => result[t] = <<FALSE, "None">>

C13_Witness ==
    /\ Returned(1) /\ Returned(2)
    /\ Len(queries[1]) = 3
    /\ \E j \in Refusals(1) : log[1][j].ev = "acquire" /\ log[1][j].i = 1
    /\ \E j \in Refusals(2) : log[2][j].ev = "locate" /\ log[2][j].i = 2
    /\ EventsOf(2, {"rollback"}) # {}

\* C14: deadlock freedom.  A run() that has not returned can always take
\* its next step, whatever locks the other transactions hold (it never
\* waits for a lock), and every run() returns in the end, by commit or by
\* abort.
C14_EveryRunReturns ==
    /\ [](\A t \in Txns : ~Returned(t) => ENABLED Step(t))
    /\ \A t \in Txns : <>[](Returned(t) /\ result[t] # NoResult)

C14_Witness ==
    /\ Returned(1) /\ Returned(2)
    /\ Len(queries[1]) = 2 /\ Len(queries[2]) = 2
    /\ queries[1][1].name = TableName /\ queries[1][2].name = OtherName
    /\ queries[2][1].name = OtherName /\ queries[2][2].name = TableName
    /\ failure[1].why = "lock"
    /\ result[2] = <<TRUE, "None">>

\* C15: progress under conflict.  When the transactions that ran
\* concurrently have all returned, they did not all abort on a refused
\* lock: one of those that met a lock conflict, or the one it conflicted
\* with, committed.
C15_SomeConflictingTransactionCommits ==
    (\A t \in Txns : Returned(t)) =>
        ~(\A t \in Txns : failure[t].why = "lock" /\ ~result[t][1])

\* The two tables as a serial execution starts with them.
InitialTables ==
    [grades |-> LoadedTable, others |-> [LoadedTable EXCEPT !.name = OtherName]]

\* The queue qs run from its position i on tables no other transaction
\* touches.
RECURSIVE RunAlone(_, _, _)
RunAlone(tabs, qs, i) ==
    IF i > Len(qs)
    THEN tabs
    ELSE IF qs[i].name = TableName
         THEN RunAlone([tabs EXCEPT !.grades = run_query(@, qs[i]).table],
                       qs, i + 1)
         ELSE RunAlone([tabs EXCEPT !.others = run_query(@, qs[i]).table],
                       qs, i + 1)

\* The transactions of order run one after the other.
RECURSIVE RunSerially(_, _)
RunSerially(tabs, order) ==
    IF order = <<>>
    THEN tabs
    ELSE RunSerially(RunAlone(tabs, queries[order[1]], 1), Tail(order))

\* What a reader finds in a table: for every key, the columns select
\* returns for it, or nothing.
Contents(tb) ==
    [k \in Keys |->
        LET r == select(tb, k, 0, AllOnes)
        IN  IF r.ok /\ Len(r.records) = 1 THEN r.records[1].columns ELSE <<>>]

\* The orders in which the transactions that committed can be run serially.
SerialOrders ==
    {order \in UNION {[1..n -> Txns] : n \in 0..Cardinality(Txns)} :
        /\ \A t \in Txns : result[t][1] <=> \E j \in DOMAIN order : order[j] = t
        /\ \A j, k \in DOMAIN order : order[j] = order[k] => j = k}

\* C16: serializability.  When every run() has returned, what the tables
\* hold is what they hold after some serial execution of the transactions
\* that committed.
C16_FinalStateOfSomeSerialExecution ==
    (\A t \in Txns : Returned(t)) =>
        \E order \in SerialOrders :
            LET serial == RunSerially(InitialTables, order)
            IN  /\ Contents(table) = Contents(serial.grades)
                /\ Contents(other) = Contents(serial.others)

\* run() of transaction t is inside query(*args) of a query that writes.
Writing(t) ==
    /\ ctl[t].pc = "exec"
    /\ queries[t][ctl[t].i].op \in {"insert", "update", "delete"}

\* Transaction t holds the table lock of the query it is at, in that mode.
HoldsTableLock(t, mode) ==
    LET id == <<queries[t][ctl[t].i].name>>
    IN  /\ id \in DOMAIN lock_table
        /\ t \in lock_table[id].holders
        /\ lock_table[id].mode = mode

\* C17: a query that writes runs only while its transaction holds
\* EXCLUSIVE locks covering its target, so no two transactions are inside
\* writing queries on the same record at the same time.
C17_WritesUnderExclusiveLocks ==
    /\ \A t \in Txns :
          Writing(t) =>
              /\ ctl[t].lock_mode = EXCLUSIVE
              /\ HoldsTableLock(t, EXCLUSIVE)
              /\ \A j \in DOMAIN held_locks[t] : held_locks[t][j][3] = EXCLUSIVE
    /\ \A t, u \in Txns :
          (t # u /\ Writing(t) /\ Writing(u)) =>
              ~(/\ queries[t][ctl[t].i].name = queries[u][ctl[u].i].name
                /\ queries[t][ctl[t].i].key = queries[u][ctl[u].i].key)

\* The keys inserted and not deleted.
Live(vs, ds) == DOMAIN vs \ ds

\* C18: for every key inserted and not deleted, Index.locate(0, k) returns
\* the RID of the base record k's insert created: the RID insert took from
\* current_base_rid and under which the page directory holds the base
\* record insert wrote; and a later step, an insert, update or delete of this
\* or another key, flushing the staging caches or not, leaves that RID as it
\* was, naming the same slot of the same base page.
C18_LocateReturnsStableBaseRid ==
    [][/\ \A k \in Live(versions', deletes') :
            LET located == locate(table'.index, 0, k)
                stored == read_record(table', located.rid)
            IN  /\ located.found
                /\ located.rid[1] = "b"
                /\ stored.ok
                /\ stored.record.rid = located.rid
                /\ stored.record.base_rid = located.rid
                /\ table'.page_directory[located.rid][1][2] = "base"
       /\ (ret'.op = "insert" /\ ret'.ok) =>
            /\ locate(table'.index, 0, ret'.key).rid
                  = BaseRid(table.current_base_rid)
            /\ read_record(table', BaseRid(table.current_base_rid))
                  .record.columns = Last(versions'[ret'.key])
       /\ \A k \in Live(versions, deletes) \cap Live(versions', deletes') :
            LET rid == locate(table.index, 0, k).rid
            IN  /\ locate(table'.index, 0, k).rid = rid
                /\ table'.page_directory[rid] = table.page_directory[rid]]_vars

C18_Witness ==
    /\ Cardinality(Inserted) = 3
    /\ deletes # {}
    /\ \E k \in Live(versions, deletes) :
          /\ Len(versions[k]) >= 3
          /\ locate(table.index, 0, k).found
          /\ locate(table.index, 0, k).rid # BaseRid(0)
    /\ \E c \in 1..num_columns : table.index.indices[c].size > 0
    /\ \E c \in 1..num_columns : table.index.unsorted_cache[c] # <<>>

\* primary_key_cache names, for each of its keys, a base record.
CacheNamesBaseRecords(tb) ==
    \A k \in DOMAIN tb.index.primary_key_cache :
        LET stored == read_record(tb, tb.index.primary_key_cache[k])
        IN  /\ stored.ok
            /\ stored.record.rid = tb.index.primary_key_cache[k]
            /\ stored.record.base_rid = stored.record.rid

\* sorted_records is sorted by key and holds one pair per key of
\* primary_key_cache, the pair of the key and its cached RID.
CacheMatchesSortedRecords(index) ==
    /\ \A k \in DOMAIN index.primary_key_cache :
          Cardinality({j \in DOMAIN index.sorted_records :
                          index.sorted_records[j][1] = k}) = 1
    /\ \A j \in DOMAIN index.sorted_records :
          /\ index.sorted_records[j][1] \in DOMAIN index.primary_key_cache
          /\ index.sorted_records[j][2] =
                index.primary_key_cache[index.sorted_records[j][1]]
    /\ \A i, j \in DOMAIN index.sorted_records :
          i < j => index.sorted_records[i][1] < index.sorted_records[j][1]

\* C19: primary-key cache coherence.  In every reachable state
\* primary_key_cache[k] is the RID of the base record whose column 0 is k,
\* the pair (k, primary_key_cache[k]) is in sorted_records, and
\* sorted_records is sorted by key with exactly one pair per cached key.
C19_PrimaryKeyCacheCoherence ==
    /\ CacheNamesBaseRecords(table)
    /\ \A k \in DOMAIN table.index.primary_key_cache :
          BaseRecordOf(k).columns[1] = k
    /\ CacheMatchesSortedRecords(table.index)

\* Some record added through add_record has the value k in column c.
AddedValue(c, k) == \E j \in DOMAIN added : added[j].columns[c] = k

\* C20: after flush_cache(), both staging buffers of every column are empty
\* and the tree of column c has the key k exactly when a record with k in
\* column c was added, in whatever order the records were added.
C20_FlushLosesNoStagedEntry ==
    ret.op = "flush_cache" =>
        \A c \in 1..num_columns :
            /\ ix.unsorted_cache[c] = <<>>
            /\ ix.insert_cache[c] = <<>>
            /\ \A k \in ColumnValues :
                  has_key(ix.indices[c], k) <=> AddedValue(c, k)

C20_Witness ==
    /\ ret.op = "flush_cache"
    /\ Len(added) = MaxAdded
    /\ ix.indices[1].size >= 4
    /\ Len(ix.indices[1].nodes) >= 3
    /\ \E j \in 2..Len(added) :
          /\ added[j].columns[1] # None
          /\ added[j - 1].columns[1] # None
          /\ added[j].columns[1] < added[j - 1].columns[1]
    /\ \E j \in DOMAIN added : added[j].columns[2] = None

\* The entries of column c staged and not yet in the tree of c.
Staged(c) == Len(ix.unsorted_cache[c]) + Len(ix.insert_cache[c])

\* C21: however many add_record calls follow each other, no column has more
\* entries staged than the staging threshold: add_record flushes the column
\* once the threshold is passed.
C21_StagingThresholdTriggersFlush ==
    \A c \in 1..num_columns : Staged(c) <= insert_cache_size

\* The record stored where page_directory[rid] points is the record rid.
Resolves(tb, rid) ==
    /\ read_record(tb, rid).ok
    /\ read_record(tb, rid).record.rid = rid

\* C22: after any sequence of inserts, updates and deletes, every RID of
\* page_directory maps to a page and an offset that hold the record of that
\* RID.
C22_PageDirectoryResolves ==
    \A rid \in DOMAIN table.page_directory : Resolves(table, rid)

\* The RIDs of the base records of tb.
BaseRids(tb) == {rid \in DOMAIN tb.page_directory : rid[1] = "b"}

\* The tail records of tb written for the base record b.
TailsOf(tb, b) ==
    {rid \in DOMAIN tb.page_directory :
        /\ rid[1] = "t"
        /\ read_record(tb, rid).ok
        /\ read_record(tb, rid).record.base_rid = b}

\* Following indirection from the record rid, within hops hops: every RID
\* met is in page_directory and a tail whose indirection is b is reached.
RECURSIVE ReachesRoot(_, _, _, _)
ReachesRoot(tb, b, rid, hops) ==
    /\ hops > 0
    /\ rid \in DOMAIN tb.page_directory
    /\ read_record(tb, rid).ok
    /\ \/ read_record(tb, rid).record.indirection = b
       \/ ReachesRoot(tb, b, read_record(tb, rid).record.indirection, hops - 1)

\* The chain of the base record b is closed.
ChainClosed(tb, b) ==
    /\ read_record(tb, b).ok
    /\ \/ read_record(tb, b).record.indirection = b
       \/ ReachesRoot(tb, b, read_record(tb, b).record.indirection,
                      Cardinality(TailsOf(tb, b)))

\* C23: in every reachable state the indirection chain of every base record
\* stays inside page_directory and ends, within as many hops as the record
\* has tails, at a tail whose indirection is the base RID, or the base
\* record points at itself.
C23_IndirectionClosure ==
    \A b \in BaseRids(table) : ChainClosed(table, b)

\* schema_encoding of the base record of the inserted key k.
BaseSchema(tb, k) ==
    read_record(tb, tb.index.primary_key_cache[k]).record.schema_encoding

\* Some successful update of key k supplied a value for column i: the
\* values updates supply (UpdateArgs) differ from every inserted value.
UpdatedColumn(vs, k, i) == Last(vs[k])[i] # vs[k][1][i]

\* C24: bit i of the schema_encoding of a base record is 1 exactly when a
\* successful update of the record supplied a value for column i, and no
\* insert, update or delete takes a bit from 1 back to 0.
C24_SchemaEncodingTracksUpdates ==
    /\ [](\A k \in Inserted : \A i \in 1..num_columns :
            BaseSchema(table, k)[i] = 1 <=> UpdatedColumn(versions, k, i))
    /\ [][\A k \in Inserted : \A i \in 1..num_columns :
            BaseSchema(table, k)[i] = 1 => BaseSchema(table', k)[i] = 1]_vars

\* The buffer pool calls of a query that pin and unpin a page, in the order
\* the query makes them.
get_page(path) == <<"get_page", path>>
unpin_page(path) == <<"unpin_page", path>>

\* page_directory[rid][0]
PathOf(tb, rid) == tb.page_directory[rid][1]

\* The calls of Query.insert.
insert_pins(tb, columns) ==
    IF exists(tb.index, 0, columns[1]).exists
    THEN <<>>
    ELSE <<get_page(Last(tb.base_page_locations)),
           unpin_page(Last(tb.base_page_locations))>>

\* The calls of Query.update that returns: the tail page of the second
\* get_page is the one current after the original copy was written.
update_pins(tb, primary_key) ==
    LET located == locate(tb.index, 0, primary_key)
        base_path == PathOf(tb, located.rid)
        base_record == read_record(tb, located.rid).record
        pr == base_path[1]
        first_tail_path == tb.tail_page_locations[pr + 1]
        copied == update_write_tail(tb, pr, NoRecord).table
    IN  IF ~located.found
        THEN <<>>
        ELSE IF base_record.indirection = base_record.rid
        THEN <<get_page(base_path),
               get_page(first_tail_path), unpin_page(first_tail_path),
               unpin_page(base_path),
               get_page(copied.tail_page_locations[pr + 1]),
               unpin_page(copied.tail_page_locations[pr + 1])>>
        ELSE <<get_page(base_path),
               get_page(PathOf(tb, base_record.indirection)),
               unpin_page(PathOf(tb, base_record.indirection)),
               unpin_page(base_path),
               get_page(first_tail_path), unpin_page(first_tail_path)>>

\* The calls of Query.delete that returns.
delete_pins(tb, primary_key) ==
    LET located == locate(tb.index, 0, primary_key)
        base_path == PathOf(tb, located.rid)
        base_record == read_record(tb, located.rid).record
        tail_path == tb.tail_page_locations[base_path[1] + 1]
    IN  IF ~located.found
        THEN <<>>
        ELSE <<get_page(base_path), unpin_page(base_path),
               get_page(PathOf(tb, base_record.indirection)),
               unpin_page(PathOf(tb, base_record.indirection)),
               get_page(tail_path), unpin_page(tail_path)>>

\* The calls of Query.select that returns.
select_pins(tb, search_key) ==
    LET located == locate(tb.index, 0, search_key)
        base_path == PathOf(tb, located.rid)
        tail_rid == read_record(tb, located.rid).record.indirection
    IN  IF ~located.found
        THEN <<>>
        ELSE <<get_page(base_path), unpin_page(base_path),
               get_page(PathOf(tb, tail_rid)), unpin_page(PathOf(tb, tail_rid))>>

\* The calls of the walk of Query.select_version, i hops left: both ways
\* out of an iteration unpin the page it read.
RECURSIVE select_version_pins_walk(_, _, _)
select_version_pins_walk(tb, temp_rid, i) ==
    IF i = 0
    THEN <<>>
    ELSE LET temp_record == read_record(tb, temp_rid).record
             calls == <<get_page(PathOf(tb, temp_rid)),
                        unpin_page(PathOf(tb, temp_rid))>>
         IN  IF temp_record.indirection = temp_record.base_rid
             THEN calls
             ELSE calls \o select_version_pins_walk(tb, temp_record.indirection, i - 1)

\* The calls of Query.select_version that returns.
select_version_pins(tb, search_key, relative_version) ==
    LET located == locate(tb.index, 0, search_key)
    IN  IF ~located.found
        THEN <<>>
        ELSE select_version_pins_walk(tb, located.rid, abs(relative_version - 2))

\* The calls of the loop of Query.sum: the tail page is not unpinned.
RECURSIVE sum_pins_loop(_, _)
sum_pins_loop(tb, rids) ==
    IF rids = <<>>
    THEN <<>>
    ELSE <<get_page(PathOf(tb, rids[1])), unpin_page(PathOf(tb, rids[1])),
           get_page(PathOf(tb, read_record(tb, rids[1]).record.indirection))>>
         \o sum_pins_loop(tb, Tail(rids))

\* The calls of Query.sum that returns.
sum_pins(tb, start_range, end_range) ==
    sum_pins_loop(tb, dict_values(locate_range(tb.index, start_range, end_range, 0).pairs))

\* The calls of the inner loop of Query.sum_version, i reads from temp_rid.
RECURSIVE sum_version_pins_walk(_, _, _)
sum_version_pins_walk(tb, temp_rid, i) ==
    IF i = 0
    THEN <<>>
    ELSE <<get_page(PathOf(tb, temp_rid)), unpin_page(PathOf(tb, temp_rid))>>
         \o sum_version_pins_walk(tb, read_record(tb, temp_rid).record.indirection,
                                  i - 1)

RECURSIVE sum_version_pins_loop(_, _, _)
sum_version_pins_loop(tb, rids, relative_version) ==
    IF rids = <<>>
    THEN <<>>
    ELSE sum_version_pins_walk(tb, rids[1], abs(relative_version - 2))
         \o sum_version_pins_loop(tb, Tail(rids), relative_version)

\* The calls of Query.sum_version that returns.
sum_version_pins(tb, start_range, end_range, relative_version) ==
    sum_version_pins_loop(
        tb, dict_values(locate_range(tb.index, start_range, end_range, 0).pairs),
        relative_version)

\* The pin count the calls leave on the page path: get_page adds one pin,
\* unpin_page takes one.
RECURSIVE PinCount(_, _)
PinCount(calls, path) ==
    IF calls = <<>>
    THEN 0
    ELSE PinCount(Tail(calls), path)
         + (IF calls[1] = get_page(path) THEN 1
            ELSE IF calls[1] = unpin_page(path) THEN -1 ELSE 0)

\* Every page is left with the pin count it had.
Balanced(calls) == \A j \in DOMAIN calls : PinCount(calls, calls[j][2]) = 0

\* The queries that leave every pin count as it was, among those that
\* return (True, False or a value) in the table tb.
InsertBalanced(tb) ==
    \A columns \in InsertArgs :
        ~insert(tb, columns).raised => Balanced(insert_pins(tb, columns))

UpdateBalanced(tb) ==
    \A k \in Keys, columns \in UpdateArgs :
        ~update(tb, k, columns).raised => Balanced(update_pins(tb, k))

DeleteBalanced(tb) ==
    \A k \in Keys : ~delete(tb, k).raised => Balanced(delete_pins(tb, k))

SelectBalanced(tb) ==
    \A k \in Keys :
        /\ ~select(tb, k, 0, AllOnes).raised => Balanced(select_pins(tb, k))
        /\ \A v \in VersionArgs :
              ~select_version(tb, k, 0, AllOnes, v).raised
                  => Balanced(select_version_pins(tb, k, v))

SumBalanced(tb) ==
    \A lo \in RangeBounds, hi \in RangeBounds :
        ~sum(tb, lo, hi, 1).raised => Balanced(sum_pins(tb, lo, hi))

SumVersionBalanced(tb) ==
    \A lo \in RangeBounds, hi \in RangeBounds : \A v \in VersionArgs :
        ~sum_version(tb, lo, hi, 1, v).raised
            => Balanced(sum_version_pins(tb, lo, hi, v))

\* C25: in every reachable state, each query that returns made one
\* unpin_page for each of its get_page calls, on the same path, so that it
\* leaves every page with the pin count it had.
C25_PinBalance ==
    /\ InsertBalanced(table)
    /\ UpdateBalanced(table)
    /\ DeleteBalanced(table)
    /\ SelectBalanced(table)
    /\ SumBalanced(table)
    /\ SumVersionBalanced(table)

\* Query.increment: select(key, table.key, all ones)[0], then update with
\* the column plus one.  select returns False for a key it cannot locate,
\* and False[0] raises TypeError, as None + 1 does.
increment(tb, key, column) ==
    LET selected == select(tb, key, 0, AllOnes)
        r == selected.records[1]
        updated_columns ==
            [i \in 1..num_columns |->
                IF i = column + 1 THEN r.columns[i] + 1 ELSE None]
    IN  IF selected.raised \/ ~selected.ok
        THEN [table |-> selected.table, ok |-> FALSE, raised |-> TRUE]
        ELSE IF r.columns[column + 1] = None
        THEN [table |-> selected.table, ok |-> FALSE, raised |-> TRUE]
        ELSE update(selected.table, key, updated_columns)

\* C26: increment of a key that has no record returns False: it raises
\* nothing and leaves the stored data as it was.
C26_IncrementOfMissingKeyReturnsFalse ==
    \A k \in Keys \ Inserted : \A column \in Columns :
        /\ ~increment(table, k, column).raised
        /\ ~increment(table, k, column).ok
        /\ Stored(increment(table, k, column).table) = Stored(table)

\* The acquire_lock calls run() of transaction t made for its i-th query,
\* in the order it made them.
Requests(t, i) ==
    LET requested(e) == e.ev = "acquire" /\ e.i = i
    IN  SelectSeq(log[t], requested)

\* The query function of the i-th query of transaction t was called.
Executed(t, i) ==
    \E j \in DOMAIN log[t] : log[t][j].ev = "query" /\ log[t][j].i = i

\* The granularities of the lock hierarchy with the length of their lock
\* ids: table; table, pagerange; table, pagerange, base or tail, page;
\* table, pagerange, base or tail, page, offset.
Hierarchy ==
    <<[granularity |-> "TABLE", length |-> 1],
      [granularity |-> "PAGE_RANGE", length |-> 2],
      [granularity |-> "PAGE", length |-> 4],
      [granularity |-> "RECORD", length |-> 5]>>

\* held_locks of transaction t has the lock id with this granularity.
Holds(t, id, granularity) ==
    \E j \in DOMAIN held_locks[t] :
        held_locks[t][j][1] = id /\ held_locks[t][j][2] = granularity

GrantedBefore(t, j, name) ==
    \E k \in 1..(j - 1) :
        /\ log[t][k].ev = "acquire"
        /\ log[t][k].ok
        /\ log[t][k].id = <<name>>

\* C28: the index lookup of run(), and the page_directory read for the lock
\* ids that follows it, are made after a lock on the table of the query was
\* granted to the transaction.
C28_LookupUnderTableLock ==
    \A t \in Txns : \A j \in EventsOf(t, {"locate"}) :
        GrantedBefore(t, j, queries[t][log[t][j].i].name)

\* The number of times x occurs in the sequence s.
Occurrences(s, x) == Cardinality({j \in DOMAIN s : s[j] = x})

\* The first batch the next flush of column position c hands to
\* batch_insert: the first batch_size staged pairs in key order.
FirstBatch(c) == Slice(sorted_by_key(ix.unsorted_cache[c]), 0, batch_size)

\* The tree of column position c has keys and the first staged batch does
\* not start above its largest key.
Unordered(c) ==
    /\ ix.indices[c].size > 0
    /\ ix.unsorted_cache[c] # <<>>
    /\ FirstBatch(c)[1][1] <= max_key(ix.indices[c])

\* C29: batch_insert of a batch that does not start above max_key() of a
\* tree with keys raises ValueError and leaves the tree as it was; the
\* flush of the column then returns with every pair of the batch in the tree
\* once; and after flush_cache() every pair added is in its tree once.
C29_UnorderedBatchFallsBack ==
    \A c \in 1..num_columns :
        /\ Unordered(c) =>
              /\ batch_insert(ix.indices[c], FirstBatch(c)).raised
              /\ batch_insert(ix.indices[c], FirstBatch(c)).tree = ix.indices[c]
              /\ \A j \in DOMAIN FirstBatch(c) :
                    Occurrences(
                        items(flush_cache_for_column(ix, c - 1).indices[c]),
                        FirstBatch(c)[j]) = 1
        /\ ret.op = "flush_cache" =>
              \A j \in DOMAIN added :
                  added[j].columns[c] # None =>
                      Occurrences(items(ix.indices[c]),
                                  <<added[j].columns[c], added[j].rid>>) = 1

C29_Witness ==
    /\ Unordered(1)
    /\ Len(FirstBatch(1)) = batch_size
    /\ ix.indices[1].size >= 2
    /\ Unordered(2)
    /\ FirstBatch(2)[1][1] = max_key(ix.indices[2])

\* The number of nodes from the node id down to a leaf.
RECURSIVE Height(_, _)
Height(nodes, id) ==
    IF nodes[id].is_leaf THEN 1 ELSE 1 + Height(nodes, nodes[id].children[1])

\* C30: after puts of distinct keys in any order, get of every key put
\* returns the value put under it, and get of a key never put, below,
\* between or above the keys put, fails with KeyError.
C30_GetReturnsWhatWasPut ==
    \A key \in 0..(MaxPut + 1) :
        IF key \in Range(puts)
        THEN /\ tree_getitem(btree, key).found
             /\ tree_getitem(btree, key).value = ValueOf(key)
        ELSE ~tree_getitem(btree, key).found

C30_Witness ==
    /\ btree.order = 3
    /\ Len(puts) = MaxPut
    /\ Height(btree.nodes, btree.root) >= 3
    /\ \E j \in 2..Len(puts) : puts[j] < puts[j - 1]
    /\ \E j \in 2..Len(puts) : puts[j] > puts[j - 1]
    /\ tree_getitem(btree, 4).value = ValueOf(4)


\* The base page paths of pagerange pr that hold a page.
BasePagesOf(tb, pr) == {path \in DOMAIN tb.frames : path[1] = pr /\ path[2] = "base"}

\* The per-pagerange lists of the table have one entry per pagerange.
OneEntryPerPagerange(tb) ==
    /\ Len(tb.tail_page_locations) = Len(tb.base_page_locations)
    /\ Len(tb.pr_unmerged_updates) = Len(tb.base_page_locations)
    /\ Len(tb.tail_page_indices) = Len(tb.base_page_locations)

\* The step is an insert that returned True on finding the last base page
\* of the table full.
InsertOnFullPage ==
    /\ ret'.op = "insert" /\ ret'.ok
    /\ table'.current_base_rid = table.current_base_rid + 1
    /\ ~has_capacity(table.frames[Last(table.base_page_locations)])

\* The record of an insert on a full page is at offset 0 of a page that did
\* not exist: the next page of the last pagerange when it has fewer than
\* PAGE_RANGE_SIZE base pages, page 0 of a new pagerange otherwise, which
\* comes with its empty tail page 0.
AllocatedBasePage ==
    LET pr == Len(table.base_page_locations) - 1
        pages == Cardinality(BasePagesOf(table, pr))
        rid == BaseRid(table.current_base_rid)
        entry == table'.page_directory[rid]
    IN  /\ entry[2] = 0
        /\ entry[1] \notin DOMAIN table.frames
        /\ Len(table'.frames[entry[1]]) = 1
        /\ table'.frames[entry[1]][1].rid = rid
        /\ IF pages < PAGE_RANGE_SIZE
           THEN /\ entry[1] = BasePath(pr, pages)
                /\ Len(table'.base_page_locations) = pr + 1
                /\ DOMAIN table'.frames = DOMAIN table.frames \cup {entry[1]}
           ELSE /\ entry[1] = BasePath(pr + 1, 0)
                /\ Len(table'.base_page_locations) = pr + 2
                /\ TailPath(pr + 1, 0) \notin DOMAIN table.frames
                /\ DOMAIN table'.frames =
                     DOMAIN table.frames \cup {entry[1], TailPath(pr + 1, 0)}
                /\ table'.frames[TailPath(pr + 1, 0)] = <<>>
                /\ Last(table'.tail_page_locations) = TailPath(pr + 1, 0)

\* C31: an insert that finds the last base page full places the record at
\* offset 0 of a new page, the next page of the same pagerange when that
\* pagerange has fewer than PAGE_RANGE_SIZE base pages and otherwise page
\* 0 of a new pagerange created together with one empty tail page 0; in
\* every reachable state base_page_locations, tail_page_locations,
\* pr_unmerged_updates and tail_page_indices have the same length and no
\* pagerange holds more than PAGE_RANGE_SIZE base pages.
C31_BasePageAllocation ==
    /\ [][InsertOnFullPage => AllocatedBasePage]_vars
    /\ [](/\ OneEntryPerPagerange(table)
          /\ \A pr \in 0..(Len(table.base_page_locations) - 1) :
                Cardinality(BasePagesOf(table, pr)) <= PAGE_RANGE_SIZE)

\* The fifth insert has opened pagerange 1 after the third opened base page
\* 1 of pagerange 0.
C31_Witness ==
    /\ ret.op = "insert" /\ ret.ok
    /\ table.current_base_rid = PAGE_RANGE_SIZE * PAGE_CAPACITY + 1
    /\ table.page_directory[BaseRid(table.current_base_rid - 1)] = <<BasePath(1, 0), 0>>
    /\ table.page_directory[BaseRid(PAGE_CAPACITY)] = <<BasePath(0, 1), 0>>
    /\ table.base_page_locations = <<BasePath(0, 1), BasePath(1, 0)>>
    /\ table.frames[TailPath(1, 0)] = <<>>

\* The events of the run of t that is under way, or of its last run.
ThisRun(t) ==
    LET before == {j \in Returns(t) : j < Len(log[t])}
        start == IF before = {} THEN 1
                 ELSE (CHOOSE j \in before : \A i \in before : i <= j) + 1
    IN  SubSeq(log[t], start, Len(log[t]))

\* The run of t is aborting on the refusal of its first lock request:
\* nothing was granted and no query was called in this run.
RefusedAtFirstLock(t) ==
    /\ ctl[t].pc \in {"rollback", "release"}
    /\ ~ctl[t].committing
    /\ \E j \in DOMAIN ThisRun(t) : ThisRun(t)[j].ev = "acquire"
    /\ \A j \in DOMAIN ThisRun(t) :
          /\ ThisRun(t)[j].ev = "acquire" => ~ThisRun(t)[j].ok
          /\ ThisRun(t)[j].ev # "query"

\* C32: a run that aborts before it has executed any operation of that
\* run, its first lock request being refused, modifies no table state in
\* its abort: no tail record is appended and page_directory is unchanged,
\* also when the same Transaction object was run before.
C32_AbortBeforeFirstOperationChangesNothing ==
    [][\A t \in Txns :
          RefusedAtFirstLock(t) /\ ctl'[t] # ctl[t]
          => /\ table'.page_directory = table.page_directory
             /\ other'.page_directory = other.page_directory
             /\ table'.current_tail_rid = table.current_tail_rid
             /\ other'.current_tail_rid = other.current_tail_rid
             /\ table'.frames = table.frames
             /\ other'.frames = other.frames]_vars

\* Key k is in the primary-key index of tb: in primary_key_cache and in
\* sorted_records, found by exists and located at a base record.
StillIndexed(tb, k) ==
    LET located == locate(tb.index, 0, k)
        stored == read_record(tb, located.rid)
    IN  /\ k \in DOMAIN tb.index.primary_key_cache
        /\ \E i \in 1..Len(tb.index.sorted_records) :
              tb.index.sorted_records[i][1] = k
        /\ exists(tb.index, 0, k).exists
        /\ located.found
        /\ located.rid[1] = "b"
        /\ tb.page_directory[located.rid][1][2] = "base"
        /\ stored.ok /\ stored.record.rid = located.rid

\* C33: delete never removes a key from the primary-key index: after a
\* successful delete(k), k is still in primary_key_cache and
\* sorted_records, exists(0, k) is true and locate(0, k) returns the base
\* RID it returned before the delete, in that state and in every later
\* one; an insert of k returns False, and no insert of a deleted key ever
\* returns True.
C33_DeleteKeepsKeyInIndex ==
    [][/\ \A k \in deletes' :
            /\ StillIndexed(table', k)
            /\ k \in Inserted =>
                  locate(table'.index, 0, k).rid = locate(table.index, 0, k).rid
            /\ \A columns \in InsertArgs :
                  columns[1] = k => ~insert(table', columns).ok
       /\ (ret'.op = "insert" /\ ret'.ok) => ret'.key \notin deletes]_vars

\* A deleted key was inserted again and the insert returned False, the
\* other keys having been inserted and one of them updated since.
C33_Witness ==
    /\ ret.op = "insert" /\ ~ret.ok /\ ~ret.raised
    /\ ret.key \in deletes
    /\ Cardinality(Inserted) = Cardinality(Keys)
    /\ table.current_tail_rid >= 3

=========================================================================
